---------------------------- MODULE Spec2Model ----------------------------
(***************************************************************************)
(* Trackit habit analytics: the entries table of HabitRepository and the   *)
(* analysis operations of TimeSeriesAnalyzer and PatternDetector that read *)
(* it.                                                                     *)
(*                                                                         *)
(* Dates are proleptic Gregorian ordinals (Python's date.toordinal()); the *)
(* table keeps ISO 'YYYY-MM-DD' strings, whose string order is the order   *)
(* of the ordinals.  Numbers computed in floating point by the code are    *)
(* exact rationals <<numerator, denominator>> here.  Metric values are     *)
(* integers and metric keys never collide with a column of the table.      *)
(***************************************************************************)
EXTENDS Integers, Sequences, FiniteSets, TLC

VARIABLES entries, today, call, result, locals, cache, clock

vars == <<entries, today, call, result, locals, cache, clock>>

None == "None"

-----------------------------------------------------------------------------
(* Bounds of the model *)

MaxWeeklyEntries == 3

MaxStreakEntries == 4

MaxTrendEntries == 3

MaxCompareEntries == 3

MaxCorrEntries == 3

MaxDowEntries == 3

MaxAllEntries == 2

MaxPeriodEntries == 2

MaxDirectionEntries == 2

MaxPairEntries == 1

-----------------------------------------------------------------------------
(* Generic helpers *)

RECURSIVE SumSeq(_)
SumSeq(s) == IF s = <<>> THEN 0 ELSE Head(s) + SumSeq(Tail(s))

RECURSIVE SumOver(_, _)
SumOver(f, S) ==
    IF S = {} THEN 0
    ELSE LET x == CHOOSE y \in S : TRUE IN f[x] + SumOver(f, S \ {x})

Range(s) == {s[i] : i \in 1..Len(s)}

Abs(n) == IF n < 0 THEN -n ELSE n

Min2(a, b) == IF a <= b THEN a ELSE b

RECURSIVE Gcd(_, _)
Gcd(a, b) == IF b = 0 THEN a ELSE Gcd(b, a % b)

(* the exact value n/d of a float quotient, in lowest terms, d > 0 *)
Rat(n, d) ==
    LET g == Gcd(Abs(n), Abs(d))
        s == IF d < 0 THEN -1 ELSE 1
    IN  <<s * (n \div g), s * (d \div g)>>

RatLess(p, q) == p[1] * q[2] < q[1] * p[2]

RatLeq(p, q) == p[1] * q[2] <= q[1] * p[2]

Zero == <<0, 1>>

One == <<1, 1>>

FromInt(n) == <<n, 1>>

Lcm(a, b) == (a \div Gcd(a, b)) * b

RatAdd(p, q) ==
    LET l == Lcm(p[2], q[2])
    IN  Rat(p[1] * (l \div p[2]) + q[1] * (l \div q[2]), l)

RatNeg(p) == <<-p[1], p[2]>>

RatSub(p, q) == RatAdd(p, RatNeg(q))

RatMul(p, q) ==
    LET g1 == Gcd(Abs(p[1]), q[2])
        g2 == Gcd(Abs(q[1]), p[2])
    IN  Rat((p[1] \div g1) * (q[1] \div g2), (p[2] \div g2) * (q[2] \div g1))

(* p / q for q # 0 *)
RatDiv(p, q) ==
    RatMul(p, IF q[1] < 0 THEN <<-q[2], -q[1]>> ELSE <<q[2], q[1]>>)

RatAbs(p) == <<Abs(p[1]), p[2]>>

RECURSIVE RatSum(_)
RatSum(s) ==
    IF s = <<>> THEN Zero
    ELSE IF Len(s) = 1 THEN s[1]
    ELSE LET half == Len(s) \div 2
         IN  RatAdd(RatSum(SubSeq(s, 1, half)), RatSum(SubSeq(s, half + 1, Len(s))))

-----------------------------------------------------------------------------
(* Calendar: datetime.date *)

IsLeap(y) == (y % 4 = 0 /\ y % 100 # 0) \/ y % 400 = 0

DaysInMonth(y, m) ==
    IF m = 2 THEN (IF IsLeap(y) THEN 29 ELSE 28)
    ELSE IF m \in {4, 6, 9, 11} THEN 30 ELSE 31

RECURSIVE DaysBeforeMonth(_, _)
DaysBeforeMonth(y, m) ==
    IF m = 1 THEN 0 ELSE DaysBeforeMonth(y, m - 1) + DaysInMonth(y, m - 1)

DaysBeforeYear(y) ==
    LET p == y - 1 IN p * 365 + (p \div 4) - (p \div 100) + (p \div 400)

(* date(y, m, d).toordinal() *)
Ord(y, m, d) == DaysBeforeYear(y) + DaysBeforeMonth(y, m) + d

(* date.weekday(): Monday is 0 *)
Weekday(o) == (o + 6) % 7

day_order ==
    <<"Monday", "Tuesday", "Wednesday", "Thursday", "Friday", "Saturday", "Sunday">>

(* Timestamp.day_name() *)
DayName(o) == day_order[Weekday(o) + 1]

-----------------------------------------------------------------------------
(* The entries table *)

Moods == {"positive", "neutral", "negative"}

NoMetrics == [k \in {} |-> 0]

NoLocals == [k \in {} |-> 0]

(* ExtractionCache.__init__ without a cache_dir: the entries of _cache in  *)
(* insertion order, each with the time of its store, and the statistics;   *)
(* ttl and the times are in hours                                          *)
NewCache(max_size, ttl_hours) ==
    [items |-> <<>>,
     stats |-> [hits |-> 0, misses |-> 0, stores |-> 0, evictions |-> 0],
     max_size |-> max_size,
     ttl |-> ttl_hours]

Entry(id, d, c, m, mt) ==
    [id |-> id, date |-> d, category |-> c, mood |-> m, metrics |-> mt]

(* HabitRepository.add_entry: INSERT of one row, the id is the next rowid *)
add_entry(d, c, m, mt) ==
    /\ entries' = Append(entries, Entry(Len(entries) + 1, d, c, m, mt))
    /\ call' = [op |-> "add_entry"]
    /\ result' = [status |-> "ok", id |-> Len(entries) + 1]
    /\ locals' = NoLocals
    /\ UNCHANGED <<today, cache, clock>>

InSpan(e, lo, hi) == e.date >= lo /\ e.date <= hi

SetMin(S) == CHOOSE x \in S : \A y \in S : x <= y

SetMax(S) == CHOOSE x \in S : \A y \in S : x >= y

RECURSIVE SortedSeq(_)
SortedSeq(S) ==
    IF S = {} THEN <<>>
    ELSE LET m == SetMin(S) IN <<m>> \o SortedSeq(S \ {m})

(* ORDER BY date ASC, timestamp ASC: by date, rows of one date in the order *)
(* of their insertion                                                      *)
RECURSIVE ConcatByDate(_, _)
ConcatByDate(rows, dates) ==
    IF dates = <<>> THEN <<>>
    ELSE SelectSeq(rows, LAMBDA e : e.date = Head(dates))
            \o ConcatByDate(rows, Tail(dates))

OrderByDate(rows) ==
    ConcatByDate(rows, SortedSeq({rows[i].date : i \in 1..Len(rows)}))

(* HabitRepository.get_entries_by_date_range *)
get_entries_by_date_range(tbl, start_date, end_date, category) ==
    LET Keep(e) == /\ InSpan(e, start_date, end_date)
                   /\ (category # None => e.category = category)
    IN  OrderByDate(SelectSeq(tbl, Keep))

-----------------------------------------------------------------------------
(* Week identifiers: strings as sequences of characters *)

Digits == <<"0", "1", "2", "3", "4", "5", "6", "7", "8", "9">>

IsDigit(ch) == \E i \in 1..10 : Digits[i] = ch

DigitVal(ch) == (CHOOSE i \in 1..10 : Digits[i] = ch) - 1

RECURSIVE DigitsVal(_)
DigitsVal(s) ==
    IF s = <<>> THEN 0
    ELSE DigitsVal(SubSeq(s, 1, Len(s) - 1)) * 10 + DigitVal(s[Len(s)])

(* int(s): an optional sign and decimal digits; "bad" is ValueError *)
IntOf(s) ==
    LET body == IF s # <<>> /\ s[1] \in {"+", "-"} THEN Tail(s) ELSE s
    IN  IF body = <<>> \/ \E i \in 1..Len(body) : ~IsDigit(body[i])
        THEN [ok |-> FALSE, val |-> 0]
        ELSE [ok |-> TRUE,
              val |-> IF s[1] = "-" THEN -DigitsVal(body) ELSE DigitsVal(body)]

(* s.split("-W") *)
RECURSIVE SplitDashW(_, _)
SplitDashW(s, acc) ==
    IF s = <<>> THEN <<acc>>
    ELSE IF Len(s) >= 2 /\ s[1] = "-" /\ s[2] = "W"
         THEN <<acc>> \o SplitDashW(SubSeq(s, 3, Len(s)), <<>>)
         ELSE SplitDashW(Tail(s), Append(acc, s[1]))

(* the Monday of the ISO week of the number: week 1 holds January 4 *)
IsoWeekMonday(year, week) ==
    IF ~(year >= 1000 /\ year <= 9999 /\ week >= 0 /\ week <= 53)
    THEN [ok |-> FALSE, date |-> 0]
    ELSE [ok |-> TRUE,
          date |-> Ord(year, 1, 4) - Weekday(Ord(year, 1, 4)) + 7 * (week - 1)]

(* datetime.strptime(f"{year}-{week}-1", "%Y-%W-%w").date(): %Y takes four *)
(* digits, %W a week number 0..53 of weeks starting on Monday, where the   *)
(* days of the year before its first Monday are week 0.                    *)
StrptimeWeekMonday(year, week) ==
    IF ~(year >= 1000 /\ year <= 9999 /\ week >= 0 /\ week <= 53)
    THEN [ok |-> FALSE, date |-> 0]
    ELSE LET first_weekday == Weekday(Ord(year, 1, 1))
             week_0_length == (7 - first_weekday) % 7
             julian == IF week = 0 THEN 1 - first_weekday
                       ELSE 1 + week_0_length + 7 * (week - 1)
         IN  [ok |-> TRUE, date |-> Ord(year, 1, 1) + julian - 1]

(* a parse that treats an identifier it cannot read as a week without rows *)
GetEntriesByWeekLenient(tbl, week_iso) ==
    LET parts == SplitDashW(week_iso, <<>>)
        year == IntOf(parts[1])
        week == IF Len(parts) >= 2 THEN IntOf(parts[2]) ELSE [ok |-> FALSE, val |-> 0]
        start == StrptimeWeekMonday(year.val, week.val)
    IN  IF Len(parts) # 2 \/ ~year.ok \/ ~week.ok \/ ~start.ok
        THEN [ok |-> TRUE, rows |-> <<>>, start_date |-> 0, end_date |-> 0]
        ELSE [ok |-> TRUE,
              rows |-> SelectSeq(tbl,
                         LAMBDA e : InSpan(e, start.date, start.date + 6)),
              start_date |-> start.date,
              end_date |-> start.date + 6]

(* HabitRepository.get_entries_by_week: the rows of the week, or ValueError *)
get_entries_by_week(tbl, week_iso) ==
    LET parts == SplitDashW(week_iso, <<>>)
        year == IntOf(parts[1])
        week == IntOf(parts[2])
        start == StrptimeWeekMonday(year.val, week.val)
    IN  IF Len(parts) # 2 \/ ~year.ok \/ ~week.ok \/ ~start.ok
        THEN [ok |-> FALSE, rows |-> <<>>, start_date |-> 0, end_date |-> 0]
        ELSE [ok |-> TRUE,
              rows |-> SelectSeq(tbl,
                         LAMBDA e : InSpan(e, start.date, start.date + 6)),
              start_date |-> start.date,
              end_date |-> start.date + 6]

-----------------------------------------------------------------------------
(* TimeSeriesAnalyzer.weekly_statistics *)

YearOf(o) ==
    CHOOSE y \in (o \div 366)..(o \div 365 + 1) :
        Ord(y, 1, 1) <= o /\ o < Ord(y + 1, 1, 1)

(* datetime.strftime('%Y-W%W'): four digits of the year, "-W", two digits *)
(* of the %W week number                                                   *)
StrftimeYearWeek(o) ==
    LET y == YearOf(o)
        yday == o - Ord(y, 1, 1)
        w == (yday + 7 - Weekday(o)) \div 7
        D(n) == Digits[n + 1]
    IN  <<D(y \div 1000), D((y \div 100) % 10), D((y \div 10) % 10), D(y % 10),
          "-", "W", D(w \div 10), D(w % 10)>>

(* df['category'].value_counts().to_dict(): the categories present, each *)
(* with its count                                                        *)
CategoryCounts(rows) ==
    [v \in {rows[i].category : i \in 1..Len(rows)} |->
        Len(SelectSeq(rows, LAMBDA e : e.category = v))]

(* df['mood'].value_counts().to_dict() *)
MoodCounts(rows) ==
    [v \in {rows[i].mood : i \in 1..Len(rows)} |->
        Len(SelectSeq(rows, LAMBDA e : e.mood = v))]

(* a day_order that stops at Friday *)
ByDayWorkdays(rows) ==
    LET Cnt(day) == Len(SelectSeq(rows, LAMBDA e : DayName(e.date) = day))
        days == SelectSeq(SubSeq(day_order, 1, 5), LAMBDA day : Cnt(day) > 0)
    IN  [i \in 1..Len(days) |-> <<days[i], Cnt(days[i])>>]

(* groupby('day_name')['category'].count(), kept in day_order *)
ByDay(rows) ==
    LET Cnt(day) == Len(SelectSeq(rows, LAMBDA e : DayName(e.date) = day))
        days == SelectSeq(day_order, LAMBDA day : Cnt(day) > 0)
    IN  [i \in 1..Len(days) |-> <<days[i], Cnt(days[i])>>]

MetricKeys(rows) == UNION {DOMAIN rows[i].metrics : i \in 1..Len(rows)}

(* one numeric column of the frame: count, mean, sum, min, max over the    *)
(* rows that carry the key (the others are NaN in that column)             *)
MetricSummary(rows, key) ==
    LET has == SelectSeq(rows, LAMBDA e : key \in DOMAIN e.metrics)
        vals == [i \in 1..Len(has) |-> has[i].metrics[key]]
    IN  [count |-> Len(has),
         mean |-> Rat(SumSeq(vals), Len(has)),
         sum |-> SumSeq(vals),
         min |-> SetMin(Range(vals)),
         max |-> SetMax(Range(vals))]

(* statistics computed over the rows of the category alone *)
WeeklyStatisticsFiltered(tbl, now, week_arg, category) ==
    LET week_iso == IF week_arg = None THEN StrftimeYearWeek(now) ELSE week_arg
        got == get_entries_by_week(tbl, week_iso)
        rows == IF category # None
                THEN SelectSeq(got.rows, LAMBDA e : e.category = category)
                ELSE got.rows
    IN  IF ~got.ok THEN [status |-> "ValueError"]
        ELSE IF got.rows = <<>>
        THEN [status |-> "ok", week |-> week_iso, total_entries |-> 0,
              by_category |-> NoMetrics, by_day |-> <<>>,
              mood_distribution |-> NoMetrics, metrics_summary |-> NoMetrics,
              entries |-> <<>>]
        ELSE [status |-> "ok", week |-> week_iso, total_entries |-> Len(rows),
              by_category |->
                  IF category # None THEN [c \in {category} |-> Len(rows)]
                  ELSE CategoryCounts(rows),
              by_day |-> ByDay(rows),
              mood_distribution |-> MoodCounts(rows),
              metrics_summary |->
                  [k \in MetricKeys(rows) |-> MetricSummary(rows, k)],
              entries |-> got.rows]

WeeklyStatisticsOf(tbl, now, week_arg, category) ==
    LET week_iso == IF week_arg = None THEN StrftimeYearWeek(now) ELSE week_arg
        got == get_entries_by_week(tbl, week_iso)
        rows == got.rows
    IN  IF ~got.ok THEN [status |-> "ValueError"]
        ELSE IF rows = <<>>
        THEN [status |-> "ok",
              week |-> week_iso,
              total_entries |-> 0,
              by_category |-> NoMetrics,
              by_day |-> <<>>,
              mood_distribution |-> NoMetrics,
              metrics_summary |-> NoMetrics,
              entries |-> <<>>]
        ELSE [status |-> "ok",
              week |-> week_iso,
              total_entries |-> Len(rows),
              by_category |->
                  IF category # None
                  THEN [c \in {category} |->
                           Len(SelectSeq(rows, LAMBDA e : e.category = category))]
                  ELSE CategoryCounts(rows),
              by_day |-> ByDay(rows),
              mood_distribution |-> MoodCounts(rows),
              metrics_summary |->
                  [k \in MetricKeys(rows) |-> MetricSummary(rows, k)],
              entries |-> rows]

weekly_statistics(week_iso, category) ==
    /\ call' = [op |-> "weekly_statistics", week_iso |-> week_iso,
                category |-> category]
    /\ result' = WeeklyStatisticsOf(entries, today, week_iso, category)
    /\ locals' = NoLocals
    /\ UNCHANGED <<entries, today, cache, clock>>

-----------------------------------------------------------------------------
(* Weekly statistics over a small table *)

W01 == <<"2", "0", "2", "6", "-", "W", "0", "1">>

W02 == <<"2", "0", "2", "6", "-", "W", "0", "2">>

WeekIds == {W01, W02}

Jan05 == Ord(2026, 1, 5)

Jan06 == Ord(2026, 1, 6)

WeeklyDates == {Jan05, Jan06, Ord(2026, 1, 11), Ord(2026, 1, 12)}

WeeklyKinds ==
    {<<"Exercise", "positive">>, <<"Study", "neutral">>, <<"Exercise", "negative">>}

InitWeekly ==
    /\ entries = <<>>
    /\ today = Ord(2026, 1, 14)
    /\ call = [op |-> "init"]
    /\ result = [status |-> "none"]
    /\ locals = NoLocals
    /\ cache = NewCache(1000, 24)
    /\ clock = 0

AddWeekly ==
    /\ Len(entries) < MaxWeeklyEntries
    /\ \E d \in WeeklyDates, k \in WeeklyKinds : add_entry(d, k[1], k[2], NoMetrics)

CallWeekly ==
    \E w \in WeekIds, c \in {None, "Exercise"} : weekly_statistics(w, c)

NextWeekly == AddWeekly \/ CallWeekly

SpecWeekly == InitWeekly /\ [][NextWeekly]_vars

IsWeeklyCall == call.op = "weekly_statistics"

(* C1 (as claimed): with exactly the two events of Scenario 1 stored,      *)
(* weekly_statistics("2026-W02") resolves the identifier to 2026-01-05 ..  *)
(* 2026-01-11 and returns total_entries = 2, by_day = {Monday: 1,          *)
(* Tuesday: 1} and mood_distribution = {positive: 1, neutral: 1}.          *)
Scenario1Stored ==
    /\ Len(entries) = 2
    /\ \E i, j \in 1..2 :
          /\ entries[i].date = Jan05 /\ entries[i].category = "Exercise"
          /\ entries[i].mood = "positive"
          /\ entries[j].date = Jan06 /\ entries[j].category = "Study"
          /\ entries[j].mood = "neutral"

C1_Scenario1 ==
    (Scenario1Stored /\ IsWeeklyCall /\ call.week_iso = W02
        /\ call.category = None) =>
    /\ get_entries_by_week(entries, W02).start_date = Jan05
    /\ get_entries_by_week(entries, W02).end_date = Ord(2026, 1, 11)
    /\ result.status = "ok"
    /\ result.total_entries = 2
    /\ result.by_day = <<<<"Monday", 1>>, <<"Tuesday", 1>>>>
    /\ result.mood_distribution = [m \in {"positive", "neutral"} |-> 1]

(* C2: for an unfiltered weekly_statistics the by_day counts sum to        *)
(* total_entries, and total_entries is the number of stored events dated   *)
(* in the Monday..Sunday span the week identifier resolves to.             *)
ResolvedMonday(week_iso) ==
    LET parts == SplitDashW(week_iso, <<>>)
    IN  StrptimeWeekMonday(IntOf(parts[1]).val, IntOf(parts[2]).val).date

StoredInSpan(lo, hi) ==
    Cardinality({i \in 1..Len(entries) : entries[i].date \in lo..hi})

C2_WeekdayPartition ==
    (IsWeeklyCall /\ call.category = None /\ result.status = "ok") =>
    /\ SumSeq([i \in 1..Len(result.by_day) |-> result.by_day[i][2]])
          = result.total_entries
    /\ result.total_entries =
          StoredInSpan(ResolvedMonday(call.week_iso),
                       ResolvedMonday(call.week_iso) + 6)
    /\ Weekday(ResolvedMonday(call.week_iso)) = 0

C2_Witness ==
    /\ IsWeeklyCall /\ call.category = None /\ result.status = "ok"
    /\ Len(result.by_day) >= 2
    /\ result.total_entries = 2
    /\ Len(entries) = 3
    /\ \E i \in 1..Len(result.entries) : Weekday(result.entries[i].date) = 6

-----------------------------------------------------------------------------
(* PatternDetector.detect_streaks *)

(* sorted(df['date'].unique()) *)
DatesWithEntries(rows) == SortedSeq({rows[i].date : i \in 1..Len(rows)})

(* a length that leaves out the last day of the run *)
StreakHalfOpen(start, end) == [start |-> start, end |-> end, length |-> end - start]

Streak(start, end) == [start |-> start, end |-> end, length |-> end - start + 1]

(* the loop over i = 1 .. len(dates) - 1 (here i + 1, sequences start at 1) *)
RECURSIVE StreakLoop(_, _, _, _)
StreakLoop(dates, i, current_streak_start, streaks) ==
    IF i > Len(dates) THEN [start |-> current_streak_start, streaks |-> streaks]
    ELSE IF dates[i] - dates[i - 1] = 1
         THEN StreakLoop(dates, i + 1, current_streak_start, streaks)
         ELSE StreakLoop(dates, i + 1, dates[i],
                         Append(streaks, Streak(current_streak_start, dates[i - 1])))

(* the loop without the append of the last streak after it *)
StreaksWithoutLast(dates) == StreakLoop(dates, 2, dates[1], <<>>).streaks

Streaks(dates) ==
    LET done == StreakLoop(dates, 2, dates[1], <<>>)
    IN  Append(done.streaks, Streak(done.start, dates[Len(dates)]))

LongestStreak(streaks) ==
    IF streaks = <<>> THEN 0
    ELSE SetMax({streaks[i].length : i \in 1..Len(streaks)})

(* while any(d.date() == check_date ...): current_streak += 1; check_date -= 1 *)
RECURSIVE WalkBack(_, _)
WalkBack(dates, check_date) ==
    IF check_date \in Range(dates) THEN 1 + WalkBack(dates, check_date - 1) ELSE 0

(* the walk started at the last entry date instead of today *)
CurrentStreakFromLast(dates, now) ==
    LET last_entry_date == dates[Len(dates)]
    IN  IF last_entry_date = now \/ last_entry_date = now - 1
        THEN WalkBack(dates, last_entry_date)
        ELSE 0

(* a count of the dates of the window instead of a walk *)
CurrentStreakAllDates(dates, now) ==
    LET last_entry_date == dates[Len(dates)]
    IN  IF last_entry_date = now \/ last_entry_date = now - 1
        THEN Len(dates)
        ELSE 0

CurrentStreak(dates, now) ==
    LET last_entry_date == dates[Len(dates)]
    IN  IF last_entry_date = now \/ last_entry_date = now - 1
        THEN WalkBack(dates, now)
        ELSE 0

(* detect_streaks without the early return for no entries: the first date *)
(* of an empty list is read                                               *)
DetectStreaksUnguarded(tbl, now, category, days) ==
    LET rows == get_entries_by_date_range(tbl, now - days, now, category)
        dates == DatesWithEntries(rows)
        streaks == Streaks(dates)
    IN  IF rows = <<>>
        THEN [status |-> "IndexError"]
        ELSE [status |-> "ok",
              current_streak |-> CurrentStreak(dates, now),
              longest_streak |-> LongestStreak(streaks),
              streak_history |-> streaks,
              streak_dates |->
                  [i \in 1..Len(streaks) |->
                      <<streaks[i].start, "to", streaks[i].end, streaks[i].length>>]]

DetectStreaksOf(tbl, now, category, days) ==
    LET rows == get_entries_by_date_range(tbl, now - days, now, category)
        dates == DatesWithEntries(rows)
        streaks == Streaks(dates)
    IN  IF rows = <<>>
        THEN [status |-> "ok", current_streak |-> 0, longest_streak |-> 0,
              streak_history |-> <<>>, streak_dates |-> <<>>]
        ELSE [status |-> "ok",
              current_streak |-> CurrentStreak(dates, now),
              longest_streak |-> LongestStreak(streaks),
              streak_history |-> streaks,
              streak_dates |->
                  [i \in 1..Len(streaks) |->
                      <<streaks[i].start, "to", streaks[i].end, streaks[i].length>>]]

detect_streaks(category, days) ==
    /\ call' = [op |-> "detect_streaks", category |-> category, days |-> days]
    /\ result' = DetectStreaksOf(entries, today, category, days)
    /\ locals' = NoLocals
    /\ UNCHANGED <<entries, today, cache, clock>>

-----------------------------------------------------------------------------
(* Streaks over the last days before today *)

Today0 == Ord(2026, 1, 14)

StreakKinds ==
    {<<Today0 - k, "Exercise">> : k \in 0..4} \cup
    {<<Today0 - k, "Study">> : k \in 0..1}

StreakWindows == {3, 30}

InitStreak ==
    /\ entries = <<>>
    /\ today = Today0
    /\ call = [op |-> "init"]
    /\ result = [status |-> "none"]
    /\ locals = NoLocals
    /\ cache = NewCache(1000, 24)
    /\ clock = 0

AddStreak ==
    /\ Len(entries) < MaxStreakEntries
    /\ \E k \in StreakKinds : add_entry(k[1], k[2], "positive", NoMetrics)

CallStreak ==
    \E c \in {None, "Exercise"}, n \in StreakWindows : detect_streaks(c, n)

NextStreak == AddStreak \/ CallStreak

SpecStreak == InitStreak /\ [][NextStreak]_vars

IsStreakCall == call.op = "detect_streaks"

(* the dates of the window that hold an event of the category asked for *)
Qualifying ==
    {entries[i].date : i \in
        {j \in 1..Len(entries) :
            /\ entries[j].date \in (today - call.days)..today
            /\ (call.category # None => entries[j].category = call.category)}}

(* the number of calendar-consecutive dates of S that end at d *)
RunEndingAt(S, d) ==
    IF d \notin S THEN 0
    ELSE CHOOSE n \in 1..Cardinality(S) :
            /\ \A k \in 0..(n - 1) : (d - k) \in S
            /\ (d - n) \notin S

LastQualifying == SetMax(Qualifying)

(* C3: detect_streaks returns longest_streak >= current_streak, the most   *)
(* recent event date being today or yesterday or earlier.                  *)
C3_StreakOrdering ==
    IsStreakCall => result.longest_streak >= result.current_streak

C3_Witness ==
    /\ IsStreakCall
    /\ Qualifying # {} /\ LastQualifying = today
    /\ result.current_streak = 2
    /\ Len(result.streak_history) = 2

(* C4: when the most recent qualifying date is today, current_streak is    *)
(* the number of calendar-consecutive qualifying dates ending today, which *)
(* is the length of the last run of streak_history and at least 1; events  *)
(* on D, D+1, D+2, a gap, and today give longest 3 and current 1.          *)
C4_CurrentStreakToday ==
    (IsStreakCall /\ Qualifying # {} /\ LastQualifying = today) =>
    /\ result.current_streak = RunEndingAt(Qualifying, today)
    /\ result.current_streak
          = result.streak_history[Len(result.streak_history)].length
    /\ result.current_streak >= 1
    /\ (Qualifying = {today - 4, today - 3, today - 2, today} =>
          result.longest_streak = 3 /\ result.current_streak = 1)

C4_Witness ==
    /\ IsStreakCall
    /\ Qualifying = {today - 4, today - 3, today - 2, today}
    /\ result.longest_streak = 3
    /\ result.current_streak = 1

(* C5: when the most recent qualifying date is yesterday, current_streak   *)
(* is 0 however long the run ending yesterday is, and longest_streak still *)
(* counts that run.                                                        *)
C5_YesterdayEdgeCase ==
    (IsStreakCall /\ Qualifying # {} /\ LastQualifying = today - 1) =>
    /\ result.current_streak = 0
    /\ result.longest_streak >= RunEndingAt(Qualifying, today - 1)
    /\ result.streak_history[Len(result.streak_history)].length
          = RunEndingAt(Qualifying, today - 1)

C5_Witness ==
    /\ IsStreakCall
    /\ Qualifying # {} /\ LastQualifying = today - 1
    /\ RunEndingAt(Qualifying, today - 1) = 3
    /\ result.current_streak = 0
    /\ result.longest_streak = 3

-----------------------------------------------------------------------------
(* TimeSeriesAnalyzer.trend_analysis *)

(* a series with an entry of value 0 for each day without rows between the *)
(* first and the last date                                                 *)
DailySeriesZeroFilled(rows, metric) ==
    LET first == SetMin({rows[i].date : i \in 1..Len(rows)})
        last == SetMax({rows[i].date : i \in 1..Len(rows)})
        OnDate(d) == SelectSeq(rows, LAMBDA e : e.date = d)
        Val(e) == IF metric \in DOMAIN e.metrics THEN e.metrics[metric] ELSE 0
        Value(d) ==
            IF metric # None /\ metric \in MetricKeys(rows)
            THEN SumSeq([i \in 1..Len(OnDate(d)) |-> Val(OnDate(d)[i])])
            ELSE Len(OnDate(d))
    IN  [i \in 1..(last - first + 1) |->
            [date |-> first + i - 1, value |-> Value(first + i - 1)]]

(* df.groupby('date')[metric].sum() or df.groupby('date').size(): one value *)
(* per date that has rows, in date order                                    *)
DailySeries(rows, metric) ==
    LET dates == DatesWithEntries(rows)
        OnDate(d) == SelectSeq(rows, LAMBDA e : e.date = d)
        Val(e) == IF metric \in DOMAIN e.metrics THEN e.metrics[metric] ELSE 0
        Value(d) ==
            IF metric # None /\ metric \in MetricKeys(rows)
            THEN SumSeq([i \in 1..Len(OnDate(d)) |-> Val(OnDate(d)[i])])
            ELSE Len(OnDate(d))
    IN  [i \in 1..Len(dates) |-> [date |-> dates[i], value |-> Value(dates[i])]]

(* the mean of all values up to position i, whatever the window *)
MovingAvgExpanding(values, window, i) == Rat(SumSeq(SubSeq(values, 1, i)), i)

(* Series.rolling(window, min_periods=1).mean() at position i *)
MovingAvg(values, window, i) ==
    LET lo == IF i - window + 1 < 1 THEN 1 ELSE i - window + 1
    IN  Rat(SumSeq(SubSeq(values, lo, i)), i - lo + 1)

(* a least-squares line forced through the origin *)
PolyfitThroughOrigin(y) ==
    LET n == Len(y)
        sxy == SumSeq([i \in 1..n |-> (i - 1) * y[i]])
        sxx == SumSeq([i \in 1..n |-> (i - 1) * (i - 1)])
    IN  <<Rat(sxy, sxx), Zero>>

(* np.polyfit(np.arange(n), y, 1): <<slope, intercept>> of the least-squares *)
(* line over x = 0 .. n-1, n >= 2                                            *)
Polyfit(y) ==
    LET n == Len(y)
        sx == SumSeq([i \in 1..n |-> i - 1])
        sy == SumSeq(y)
        sxy == SumSeq([i \in 1..n |-> (i - 1) * y[i]])
        sxx == SumSeq([i \in 1..n |-> (i - 1) * (i - 1)])
        slope == Rat(n * sxy - sx * sy, n * sxx - sx * sx)
        intercept == RatDiv(RatSub(FromInt(sy), RatMul(slope, FromInt(sx))),
                            FromInt(n))
    IN  <<slope, intercept>>

(* np.polyval(coefficients, x) at x *)
Polyval(coefficients, x) ==
    RatAdd(RatMul(coefficients[1], FromInt(x)), coefficients[2])

RatSquare(p) == RatMul(p, p)

(* a direction by the sign of the slope alone, without the band around 0 *)
TrendOfSignOnly(y) ==
    IF Len(y) >= 2
    THEN LET n == Len(y)
             coefficients == Polyfit(y)
             slope == coefficients[1]
             mean == Rat(SumSeq(y), n)
             ss_res == RatSum([i \in 1..n |->
                          RatSquare(RatSub(FromInt(y[i]),
                                           Polyval(coefficients, i - 1)))])
             ss_tot == RatSum([i \in 1..n |->
                          RatSquare(RatSub(FromInt(y[i]), mean))])
         IN  [trend_direction |->
                  IF slope[1] = 0 THEN "stable"
                  ELSE IF slope[1] > 0 THEN "increasing" ELSE "decreasing",
              r_squared |->
                  IF ss_tot[1] > 0 THEN RatSub(One, RatDiv(ss_res, ss_tot))
                  ELSE Zero,
              slope |-> slope]
    ELSE [trend_direction |-> "insufficient_data", r_squared |-> Zero,
          slope |-> Zero]

(* lines 256-279: slope, R squared and the direction of a series *)
TrendOf(y) ==
    IF Len(y) >= 2
    THEN LET n == Len(y)
             coefficients == Polyfit(y)
             slope == coefficients[1]
             mean == Rat(SumSeq(y), n)
             ss_res == RatSum([i \in 1..n |->
                          RatSquare(RatSub(FromInt(y[i]),
                                           Polyval(coefficients, i - 1)))])
             ss_tot == RatSum([i \in 1..n |->
                          RatSquare(RatSub(FromInt(y[i]), mean))])
         IN  [trend_direction |->
                  IF RatLess(RatAbs(slope), <<1, 100>>) THEN "stable"
                  ELSE IF slope[1] > 0 THEN "increasing" ELSE "decreasing",
              r_squared |->
                  IF ss_tot[1] > 0 THEN RatSub(One, RatDiv(ss_res, ss_tot))
                  ELSE Zero,
              slope |-> slope]
    ELSE [trend_direction |-> "insufficient_data", r_squared |-> Zero,
          slope |-> Zero]

TrendAnalysisOf(tbl, now, category, metric, window, weeks) ==
    LET rows == get_entries_by_date_range(tbl, now - 7 * weeks, now, category)
        daily == DailySeries(rows, metric)
        values == [i \in 1..Len(daily) |-> daily[i].value]
        trend == TrendOf(values)
    IN  IF rows = <<>>
        THEN [status |-> "ok", daily_data |-> <<>>,
              trend_direction |-> "insufficient_data",
              trend_strength |-> Zero, summary |-> NoMetrics]
        ELSE [status |-> "ok",
              daily_data |->
                  [i \in 1..Len(daily) |->
                      [date |-> daily[i].date, value |-> daily[i].value,
                       moving_avg |-> MovingAvg(values, window, i)]],
              trend_direction |-> trend.trend_direction,
              trend_strength |-> trend.r_squared,
              summary |->
                  [metric |-> IF metric # None /\ metric \in MetricKeys(rows)
                              THEN metric ELSE "count",
                   window_days |-> window,
                   period_days |-> Len(daily),
                   mean_value |-> Rat(SumSeq(values), Len(values)),
                   max_value |-> SetMax(Range(values)),
                   min_value |-> SetMin(Range(values))]]

(* a trend_analysis that hands out its last result again when the call    *)
(* before was a trend_analysis too, whatever the arguments                 *)
TrendAnalysisMemo(category, metric, window, weeks) ==
    /\ call' = [op |-> "trend_analysis", category |-> category,
                metric |-> metric, window |-> window, weeks |-> weeks]
    /\ result' = IF call.op = "trend_analysis" THEN result
                 ELSE TrendAnalysisOf(entries, today, category, metric, window, weeks)
    /\ locals' = NoLocals
    /\ UNCHANGED <<entries, today, cache, clock>>

trend_analysis(category, metric, window, weeks) ==
    /\ call' = [op |-> "trend_analysis", category |-> category,
                metric |-> metric, window |-> window, weeks |-> weeks]
    /\ result' = TrendAnalysisOf(entries, today, category, metric, window, weeks)
    /\ locals' = NoLocals
    /\ UNCHANGED <<entries, today, cache, clock>>

-----------------------------------------------------------------------------
(* Trends over the last days before today *)

TrendDates == {Today0 - k : k \in {0, 1, 3}}

TrendMetrics ==
    {NoMetrics} \cup {[k \in {"distance_km"} |-> v] : v \in {1, 3}}

InitTrend ==
    /\ entries = <<>>
    /\ today = Today0
    /\ call = [op |-> "init"]
    /\ result = [status |-> "none"]
    /\ locals = NoLocals
    /\ cache = NewCache(1000, 24)
    /\ clock = 0

AddTrend ==
    /\ Len(entries) < MaxTrendEntries
    /\ \E d \in TrendDates, mt \in TrendMetrics :
          add_entry(d, "Exercise", "positive", mt)

CallTrend ==
    \E metric \in {None, "distance_km"}, weeks \in {0, 4} :
        trend_analysis(None, metric, 2, weeks)

NextTrend == AddTrend \/ CallTrend

SpecTrend == InitTrend /\ [][NextTrend]_vars

IsTrendCall == call.op = "trend_analysis"

SeriesValues == [i \in 1..Len(result.daily_data) |-> result.daily_data[i].value]

(* the square of the correlation of (index, value), as <<numerator, denominator>> *)
SquaredCorrelation(y) ==
    LET n == Len(y)
        sx == SumSeq([i \in 1..n |-> i - 1])
        sy == SumSeq(y)
        sxy == SumSeq([i \in 1..n |-> (i - 1) * y[i]])
        sxx == SumSeq([i \in 1..n |-> (i - 1) * (i - 1)])
        syy == SumSeq([i \in 1..n |-> y[i] * y[i]])
        c == n * sxy - sx * sy
    IN  <<c * c, (n * sxx - sx * sx) * (n * syy - sy * sy)>>

-----------------------------------------------------------------------------
(* TimeSeriesAnalyzer.compare_periods *)

(* dict.get(key, default) *)
GetOr(d, key, default) == IF key \in DOMAIN d THEN d[key] ELSE default

(* ((v2 - v1) / v1 * 100) if v1 > 0 else 0, at lines 343-345, 360 and 398 *)
PercentChange(v1, v2) ==
    IF v1 > 0 THEN Rat((v2 - v1) * 100, v1) ELSE Zero

(* m.get('sum', 0) of metrics.get(metric_name, {}) *)
MetricSum(metrics_summary, metric_name) ==
    IF metric_name \in DOMAIN metrics_summary
    THEN metrics_summary[metric_name].sum
    ELSE 0

ChangeOf(stats1, stats2) ==
    LET count1 == stats1.total_entries
        count2 == stats2.total_entries
        all_categories == DOMAIN stats1.by_category \cup DOMAIN stats2.by_category
        all_metrics ==
            DOMAIN stats1.metrics_summary \cup DOMAIN stats2.metrics_summary
    IN  [total_entries |-> count2 - count1,
         total_entries_percent |-> PercentChange(count1, count2),
         by_category |->
             [cat \in all_categories |->
                 LET count1_cat == GetOr(stats1.by_category, cat, 0)
                     count2_cat == GetOr(stats2.by_category, cat, 0)
                 IN  [absolute |-> count2_cat - count1_cat,
                      percent |-> PercentChange(count1_cat, count2_cat)]],
         mood_distribution |->
             [mood \in Moods |->
                 LET count1_mood == GetOr(stats1.mood_distribution, mood, 0)
                     count2_mood == GetOr(stats2.mood_distribution, mood, 0)
                 IN  [period1 |-> count1_mood, period2 |-> count2_mood,
                      absolute |-> count2_mood - count1_mood]],
         metrics |->
             [metric_name \in all_metrics |->
                 LET sum1 == MetricSum(stats1.metrics_summary, metric_name)
                     sum2 == MetricSum(stats2.metrics_summary, metric_name)
                 IN  [period1_sum |-> sum1, period2_sum |-> sum2,
                      absolute |-> sum2 - sum1,
                      percent |-> PercentChange(sum1, sum2)]]]

ComparePeriodsOf(tbl, now, period1, period2, category) ==
    LET stats1 == WeeklyStatisticsOf(tbl, now, period1, category)
        stats2 == WeeklyStatisticsOf(tbl, now, period2, category)
        change == ChangeOf(stats1, stats2)
    IN  IF stats1.status # "ok" \/ stats2.status # "ok"
        THEN [status |-> "ValueError"]
        ELSE [status |-> "ok",
              period1 |-> period1,
              period2 |-> period2,
              period1_stats |-> stats1,
              period2_stats |-> stats2,
              change |-> change,
              improvement |->
                  [total_entries |-> change.total_entries >= 0,
                   positive_mood |->
                       change.mood_distribution["positive"].absolute >= 0]]

compare_periods(period1, period2, category) ==
    /\ call' = [op |-> "compare_periods", period1 |-> period1,
                period2 |-> period2, category |-> category]
    /\ result' = ComparePeriodsOf(entries, today, period1, period2, category)
    /\ locals' = NoLocals
    /\ UNCHANGED <<entries, today, cache, clock>>

-----------------------------------------------------------------------------
(* Two weeks compared *)

Jan12 == Ord(2026, 1, 12)

CompareMetrics == {NoMetrics} \cup {[k \in {"score"} |-> v] : v \in {-2, 2}}

InitCompare ==
    /\ entries = <<>>
    /\ today = Today0
    /\ call = [op |-> "init"]
    /\ result = [status |-> "none"]
    /\ locals = NoLocals
    /\ cache = NewCache(1000, 24)
    /\ clock = 0

AddCompare ==
    /\ Len(entries) < MaxCompareEntries
    /\ \E d \in {Jan05, Jan12}, c \in {"Exercise", "Study"}, mt \in CompareMetrics :
          add_entry(d, c, "positive", mt)

CallCompare ==
    \E p \in {<<W01, W02>>, <<W02, W01>>}, c \in {None, "Exercise"} :
        compare_periods(p[1], p[2], c)

NextCompare == AddCompare \/ CallCompare

SpecCompare == InitCompare /\ [][NextCompare]_vars

IsCompareCall == call.op = "compare_periods" /\ result.status = "ok"

(* the rows of the table dated in the week of a period *)
StoredInPeriod(week_iso) ==
    {i \in 1..Len(entries) :
        entries[i].date \in ResolvedMonday(week_iso)..(ResolvedMonday(week_iso) + 6)}

StoredCount(week_iso) == Cardinality(StoredInPeriod(week_iso))

StoredCategoryCount(week_iso, cat) ==
    Cardinality({i \in StoredInPeriod(week_iso) : entries[i].category = cat})

RECURSIVE StoredMetricSumOf(_, _)
StoredMetricSumOf(rowset, key) ==
    IF rowset = {} THEN 0
    ELSE LET i == CHOOSE j \in rowset : TRUE
         IN  (IF key \in DOMAIN entries[i].metrics THEN entries[i].metrics[key] ELSE 0)
             + StoredMetricSumOf(rowset \ {i}, key)

StoredMetricSum(week_iso, key) == StoredMetricSumOf(StoredInPeriod(week_iso), key)

(* percent is the exact value of (v2 - v1) / v1 * 100, or 0 for v1 = 0 *)
PercentAsClaimed(percent, v1, v2) ==
    IF v1 = 0 THEN percent = Zero
    ELSE percent[2] > 0 /\ percent[1] * v1 = (v2 - v1) * 100 * percent[2]

(* C7 (as claimed): in compare_periods, for total entries, for every       *)
(* category and for every metric key of either period, a period 1 value of *)
(* 0 gives percent change 0 and any other period 1 value v1 gives          *)
(* (v2 - v1) / v1 * 100.                                                   *)
C7_PercentChangeSafety ==
    IsCompareCall =>
    /\ PercentAsClaimed(result.change.total_entries_percent,
                        StoredCount(call.period1), StoredCount(call.period2))
    /\ \A cat \in DOMAIN result.change.by_category :
          PercentAsClaimed(result.change.by_category[cat].percent,
                           StoredCategoryCount(call.period1, cat),
                           StoredCategoryCount(call.period2, cat))
    /\ \A key \in DOMAIN result.change.metrics :
          PercentAsClaimed(result.change.metrics[key].percent,
                           StoredMetricSum(call.period1, key),
                           StoredMetricSum(call.period2, key))

-----------------------------------------------------------------------------
(* PatternDetector.detect_correlations *)

(* the order of str values under <, for the categories of the model *)
CategoryOrder == <<"Exercise", "Sleep", "Study", "Work">>

CatRank(c) == CHOOSE i \in 1..Len(CategoryOrder) : CategoryOrder[i] = c

CatLess(a, b) == CatRank(a) < CatRank(b)

(* Series.unique(): the values in the order of their first appearance *)
RECURSIVE UniqueInOrder(_)
UniqueInOrder(s) ==
    IF s = <<>> THEN <<>>
    ELSE LET front == UniqueInOrder(SubSeq(s, 1, Len(s) - 1))
         IN  IF s[Len(s)] \in Range(front) THEN front
             ELSE Append(front, s[Len(s)])

(* a threshold the rate has to exceed *)
MoodFlaggedAbove(total, positive) == total >= 3 /\ positive * 10 > 7 * total

(* total >= 3 and positive_rate >= 0.7, positive_rate = positive / total *)
MoodFlagged(total, positive) == total >= 3 /\ positive * 10 >= 7 * total

MoodAfterActivity(rows) ==
    [category \in {rows[i].category : i \in 1..Len(rows)} |->
        LET category_df == SelectSeq(rows, LAMBDA e : e.category = category)
            total == Len(category_df)
            positive == Len(SelectSeq(category_df, LAMBDA e : e.mood = "positive"))
        IN  [total |-> total, positive |-> positive,
             positive_rate |-> Rat(positive, total)]]

(* the sentences "<category> correlates with good mood (..% positive, n *)
(* occurrences)", in the order of df['category'].unique()              *)
MoodSentences(rows) ==
    LET cats == UniqueInOrder([i \in 1..Len(rows) |-> rows[i].category])
        maa == MoodAfterActivity(rows)
        flagged == SelectSeq(cats,
                       LAMBDA c : MoodFlagged(maa[c].total, maa[c].positive))
    IN  [i \in 1..Len(flagged) |->
            [kind |-> "good_mood", category |-> flagged[i],
             positive_rate |-> maa[flagged[i]].positive_rate,
             total |-> maa[flagged[i]].total]]

(* the pairs of one day without the order test: (A, B) and (B, A) both *)
DayPairsBothOrders(cat_set) ==
    {<<cat1, cat2>> : cat1 \in cat_set, cat2 \in cat_set} \
        {<<c, c>> : c \in cat_set}

(* for cat1 in cat_set: for cat2 in cat_set: if cat1 < cat2 *)
DayPairs(cat_set) ==
    {p \in {<<cat1, cat2>> : cat1 \in cat_set, cat2 \in cat_set} :
        CatLess(p[1], p[2])}

(* pair_counts, a defaultdict(int), after the loop over the days *)
RECURSIVE PairCountsLoop(_, _)
PairCountsLoop(cat_sets, pair_counts) ==
    IF cat_sets = <<>> THEN pair_counts
    ELSE LET hit == DayPairs(Head(cat_sets))
             next == [p \in DOMAIN pair_counts \cup hit |->
                         (IF p \in DOMAIN pair_counts THEN pair_counts[p] ELSE 0)
                         + (IF p \in hit THEN 1 ELSE 0)]
         IN  PairCountsLoop(Tail(cat_sets), next)

(* df.groupby('date')['category'].apply(list), then .apply(set) *)
DailyCategorySets(rows) ==
    LET dates == DatesWithEntries(rows)
    IN  [i \in 1..Len(dates) |->
            {rows[j].category : j \in {k \in 1..Len(rows) : rows[k].date = dates[i]}}]

PairCounts(rows) == PairCountsLoop(DailyCategorySets(rows), NoLocals)

(* the pairs that occur together at least 3 times *)
SignificantPairs(pair_counts) == {p \in DOMAIN pair_counts : pair_counts[p] >= 3}

(* activity_pairs after the sort by count, descending; pairs of one count   *)
(* keep the order in which the loops over the sets met them, which is the   *)
(* iteration order of a set of str and so any order                          *)
IsActivityPairs(seq, pair_counts) ==
    /\ Len(seq) = Cardinality(SignificantPairs(pair_counts))
    /\ {seq[i].activities : i \in 1..Len(seq)} = SignificantPairs(pair_counts)
    /\ \A i \in 1..Len(seq) :
          seq[i].co_occurrence_count = pair_counts[seq[i].activities]
    /\ \A i \in 1..(Len(seq) - 1) :
          seq[i].co_occurrence_count >= seq[i + 1].co_occurrence_count

RECURSIVE Orderings(_)
Orderings(S) ==
    IF S = {} THEN {<<>>}
    ELSE UNION {{<<x>> \o t : t \in Orderings(S \ {x})} : x \in S}

ActivityPairsChoices(pair_counts) ==
    {seq \in {[i \in 1..Len(o) |->
                  [activities |-> o[i], co_occurrence_count |-> pair_counts[o[i]]]] :
              o \in Orderings(SignificantPairs(pair_counts))} :
        IsActivityPairs(seq, pair_counts)}

(* a sentence for every pair of activity_pairs *)
PairSentencesAll(activity_pairs) ==
    [i \in 1..Len(activity_pairs) |->
        [kind |-> "together", activities |-> activity_pairs[i].activities,
         count |-> activity_pairs[i].co_occurrence_count]]

(* the sentences "<cat1> + <cat2> often occur together (n times)" *)
PairSentences(activity_pairs) ==
    LET top == SubSeq(activity_pairs, 1, Min2(5, Len(activity_pairs)))
    IN  [i \in 1..Len(top) |->
            [kind |-> "together", activities |-> top[i].activities,
             count |-> top[i].co_occurrence_count]]

detect_correlations(weeks) ==
    LET rows == get_entries_by_date_range(entries, today - 7 * weeks, today, None)
        pair_counts == PairCounts(rows)
    IN  /\ call' = [op |-> "detect_correlations", weeks |-> weeks]
        /\ IF rows = <<>>
           THEN /\ result' = [status |-> "ok", correlations |-> <<>>,
                              mood_after_activity |-> NoMetrics,
                              activity_pairs |-> <<>>]
                /\ locals' = NoLocals
           ELSE \E activity_pairs \in ActivityPairsChoices(pair_counts) :
                /\ result' =
                     [status |-> "ok",
                      correlations |->
                          MoodSentences(rows) \o PairSentences(activity_pairs),
                      mood_after_activity |-> MoodAfterActivity(rows),
                      activity_pairs |-> activity_pairs]
                /\ locals' = [k \in {"pair_counts"} |-> pair_counts]
        /\ UNCHANGED <<entries, today, cache, clock>>

-----------------------------------------------------------------------------
(* Correlations over a new table and over a table with a history *)

RECURSIVE Repeat(_, _)
Repeat(x, n) == IF n = 0 THEN <<>> ELSE <<x>> \o Repeat(x, n - 1)

(* rows without their ids *)
Row(d, c, m) == [date |-> d, category |-> c, mood |-> m]

WithIds(rows) ==
    [i \in 1..Len(rows) |->
        Entry(i, rows[i].date, rows[i].category, rows[i].mood, NoMetrics)]

(* Exercise 4 times, all positive; Study 9 times, 7 of them positive; both *)
(* on each of the two days before yesterday                                *)
History ==
    WithIds(Repeat(Row(Today0 - 3, "Exercise", "positive"), 2)
            \o Repeat(Row(Today0 - 3, "Study", "positive"), 4)
            \o Repeat(Row(Today0 - 2, "Study", "negative"), 2)
            \o Repeat(Row(Today0 - 2, "Exercise", "positive"), 2)
            \o Repeat(Row(Today0 - 2, "Study", "positive"), 3))

CorrDates == {Today0 - 1, Today0}

CorrCategories == {"Exercise", "Sleep", "Study"}

CorrMoods == {"positive", "negative"}

CorrWeeks == {0, 4}

InitCorr ==
    /\ entries \in {<<>>, History}
    /\ today = Today0
    /\ call = [op |-> "init"]
    /\ result = [status |-> "none"]
    /\ locals = NoLocals
    /\ cache = NewCache(1000, 24)
    /\ clock = 0

AddedCorr == IF Len(entries) >= Len(History) THEN Len(entries) - Len(History)
             ELSE Len(entries)

AddCorr ==
    /\ AddedCorr < MaxCorrEntries
    /\ \E d \in CorrDates, c \in CorrCategories, m \in CorrMoods :
          add_entry(d, c, m, NoMetrics)

CallCorr == \E w \in CorrWeeks : detect_correlations(w)

NextCorr == AddCorr \/ CallCorr

SpecCorr == InitCorr /\ [][NextCorr]_vars

IsCorrCall == call.op = "detect_correlations"

(* the rows of the table dated in the window of the call *)
InWindow == {i \in 1..Len(entries) :
                entries[i].date \in (today - 7 * call.weeks)..today}

WindowCategories == {entries[i].category : i \in InWindow}

(* the dates of the window on which the category has an event *)
DatesOf(c) == {entries[i].date : i \in {j \in InWindow : entries[j].category = c}}

(* the counter kept for the unordered pair {a, b}, 0 when there is none *)
CounterOf(a, b) ==
    LET pc == locals.pair_counts
    IN  (IF <<a, b>> \in DOMAIN pc THEN pc[<<a, b>>] ELSE 0)
        + (IF <<b, a>> \in DOMAIN pc THEN pc[<<b, a>>] ELSE 0)

(* C8: every unordered pair of distinct categories has a single counter,   *)
(* equal to the number of distinct dates on which both categories have an  *)
(* event; (A, B) and (B, A) are not counted separately and no (A, A) is    *)
(* counted.                                                                *)
C8_CoOccurrenceSymmetry ==
    (IsCorrCall /\ InWindow # {}) =>
    LET pc == locals.pair_counts
    IN  /\ \A p \in DOMAIN pc :
              /\ p[1] # p[2]
              /\ <<p[2], p[1]>> \notin DOMAIN pc
              /\ {p[1], p[2]} \subseteq WindowCategories
        /\ \A a \in WindowCategories, b \in WindowCategories :
              a # b => CounterOf(a, b) = Cardinality(DatesOf(a) \cap DatesOf(b))

C8_Witness ==
    /\ IsCorrCall /\ InWindow # {}
    /\ CounterOf("Study", "Exercise") = 3
    /\ CounterOf("Sleep", "Study") = 1
    /\ Cardinality({i \in InWindow : entries[i].category = "Study"}) > 3

(* C9: a category gets a 'correlates with good mood' sentence iff it has   *)
(* at least 3 events in the window and positive/total >= 0.70 (total = 3   *)
(* and a rate of exactly 7/10 are flagged, and so is Exercise with 5       *)
(* events, all positive); mood_after_activity holds total, positive and    *)
(* positive_rate of every category present.                                *)
WindowTotal(c) == Cardinality({i \in InWindow : entries[i].category = c})

WindowPositive(c) ==
    Cardinality({i \in InWindow :
                    entries[i].category = c /\ entries[i].mood = "positive"})

FlaggedCategories ==
    {result.correlations[i].category :
        i \in {j \in 1..Len(result.correlations) :
                  result.correlations[j].kind = "good_mood"}}

C9_MoodCorrelationFlag ==
    IsCorrCall =>
    /\ DOMAIN result.mood_after_activity = WindowCategories
    /\ \A c \in WindowCategories :
          LET maa == result.mood_after_activity[c]
          IN  /\ maa.total = WindowTotal(c)
              /\ maa.positive = WindowPositive(c)
              /\ maa.positive_rate[1] * maa.total = maa.positive * maa.positive_rate[2]
              /\ (c \in FlaggedCategories) <=>
                    (WindowTotal(c) >= 3 /\ 10 * WindowPositive(c) >= 7 * WindowTotal(c))
    /\ FlaggedCategories \subseteq WindowCategories

C9_Witness ==
    /\ IsCorrCall
    /\ WindowTotal("Study") = 10 /\ WindowPositive("Study") = 7
    /\ WindowTotal("Exercise") = 5 /\ WindowPositive("Exercise") = 5
    /\ FlaggedCategories = {"Study", "Exercise"}
    /\ "Sleep" \in WindowCategories

-----------------------------------------------------------------------------
(* PatternDetector.detect_day_of_week_patterns *)

(* day_analysis[day_name] for day_num = 0 .. 6; weeks > 0 or no row that day *)
DayAnalysis(rows, weeks) ==
    [day_name \in Range(day_order) |->
        LET day_df == SelectSeq(rows, LAMBDA e : DayName(e.date) = day_name)
            total_count == Len(day_df)
            CountMood(m) == Len(SelectSeq(day_df, LAMBDA e : e.mood = m))
        IN  IF total_count > 0
            THEN [count |-> total_count,
                  positive_rate |-> Rat(CountMood("positive"), total_count),
                  positive_count |-> CountMood("positive"),
                  neutral_count |-> CountMood("neutral"),
                  negative_count |-> CountMood("negative"),
                  avg_entries_per_week |->
                      IF weeks # 0 THEN Rat(total_count, weeks) ELSE Zero]
            ELSE [count |-> 0, positive_rate |-> Zero, positive_count |-> 0,
                  neutral_count |-> 0, negative_count |-> 0,
                  avg_entries_per_week |-> Zero]]

(* max(items, key): the first item whose key no item exceeds; keys are     *)
(* rationals, Key[day] for the days in day_order                           *)
RECURSIVE MaxScan(_, _, _)
MaxScan(Key, i, best) ==
    IF i > Len(day_order) THEN best
    ELSE MaxScan(Key, i + 1,
                 IF RatLess(Key[best], Key[day_order[i]]) THEN day_order[i] ELSE best)

(* a scan that keeps the last item among equal keys *)
LastMax(Key) ==
    CHOOSE d \in Range(day_order) :
        /\ \A o \in Range(day_order) : RatLeq(Key[o], Key[d])
        /\ \A i, j \in 1..7 :
              (day_order[i] = d /\ j > i) => RatLess(Key[day_order[j]], Key[d])

FirstMax(Key) == MaxScan(Key, 2, day_order[1])

(* min(items, key): the first item no key is below *)
RECURSIVE MinScan(_, _, _)
MinScan(Key, i, best) ==
    IF i > Len(day_order) THEN best
    ELSE MinScan(Key, i + 1,
                 IF RatLess(Key[day_order[i]], Key[best]) THEN day_order[i] ELSE best)

(* a scan that keeps the last item among equal keys *)
LastMin(Key) ==
    CHOOSE d \in Range(day_order) :
        /\ \A o \in Range(day_order) : RatLeq(Key[d], Key[o])
        /\ \A i, j \in 1..7 :
              (day_order[i] = d /\ j > i) => RatLess(Key[d], Key[day_order[j]])

FirstMin(Key) == MinScan(Key, 2, day_order[1])

(* best_rate > worst_rate + 0.1 at line 182, on float64. The rates are     *)
(* count / total quotients, so the float sum compares as the exact sum     *)
(* does unless best_rate - worst_rate is exactly 1/10; then the sum        *)
(* worst_rate + 0.1 either rounds to float(best_rate) or just below it.    *)
(* RoundsBelowBest lists the <<worst_rate, best_rate>> with totals up to   *)
(* 30 whose sum rounds below: 0.7 + 0.1 is 0.7999999999999999 < 0.8.       *)
RoundsBelowBest ==
    {<<<<7, 10>>, <<4, 5>>>>, <<<<2, 3>>, <<23, 30>>>>,
     <<<<11, 15>>, <<5, 6>>>>, <<<<7, 20>>, <<9, 20>>>>}

(* a comparison on the exact rates *)
ExceedsByTenthExact(best_rate, worst_rate) ==
    RatLess(RatAdd(worst_rate, <<1, 10>>), best_rate)

ExceedsByTenth(best_rate, worst_rate) ==
    \/ RatLess(RatAdd(worst_rate, <<1, 10>>), best_rate)
    \/ <<worst_rate, best_rate>> \in RoundsBelowBest

(* the sentences of patterns, as records *)
DayPatterns(da, best_day, worst_day, most_active_day, least_active_day) ==
    (IF da[most_active_day].count > 0
     THEN <<[kind |-> "most_active", day |-> most_active_day,
             avg |-> da[most_active_day].avg_entries_per_week]>>
     ELSE <<>>)
    \o (IF da[least_active_day].count < da[most_active_day].count
        THEN <<[kind |-> "least_active", day |-> least_active_day,
                avg |-> da[least_active_day].avg_entries_per_week]>>
        ELSE <<>>)
    \o (IF /\ best_day # worst_day
           /\ ExceedsByTenth(da[best_day].positive_rate,
                             da[worst_day].positive_rate)
        THEN <<[kind |-> "best_mood", day |-> best_day,
                rate |-> da[best_day].positive_rate],
               [kind |-> "lowest_mood", day |-> worst_day,
                rate |-> da[worst_day].positive_rate]>>
        ELSE <<>>)

DetectDayOfWeekPatternsOf(tbl, now, weeks, category) ==
    LET rows == get_entries_by_date_range(tbl, now - 7 * weeks, now, category)
        da == DayAnalysis(rows, weeks)
        Rate == [d \in Range(day_order) |-> da[d].positive_rate]
        Count == [d \in Range(day_order) |-> FromInt(da[d].count)]
        best_day == FirstMax(Rate)
        worst_day == FirstMin(Rate)
        most_active_day == FirstMax(Count)
        least_active_day == FirstMin(Count)
    IN  IF rows = <<>>
        THEN [status |-> "ok", best_day |-> None, worst_day |-> None,
              most_active_day |-> None, least_active_day |-> None,
              day_analysis |-> NoMetrics, patterns |-> <<>>]
        ELSE IF weeks = 0
        THEN [status |-> "ZeroDivisionError"]
        ELSE [status |-> "ok", best_day |-> best_day, worst_day |-> worst_day,
              most_active_day |-> most_active_day,
              least_active_day |-> least_active_day,
              day_analysis |-> da,
              patterns |-> DayPatterns(da, best_day, worst_day,
                                       most_active_day, least_active_day)]

detect_day_of_week_patterns(weeks, category) ==
    /\ call' = [op |-> "detect_day_of_week_patterns", weeks |-> weeks,
                category |-> category]
    /\ result' = DetectDayOfWeekPatternsOf(entries, today, weeks, category)
    /\ locals' = NoLocals
    /\ UNCHANGED <<entries, today, cache, clock>>

-----------------------------------------------------------------------------
(* Weekday patterns over a new table and over a table with one positive    *)
(* event on each of the last seven days                                    *)

EveryWeekday ==
    WithIds([i \in 1..7 |-> Row(Today0 - 7 + i, "Exercise", "positive")])

DowKinds ==
    {<<Today0 - k, "Exercise", m>> : k \in 0..2, m \in {"positive", "negative"}}
    \cup {<<Today0, "Study", "positive">>}

DowWeeks == {0, 4}

InitDow ==
    /\ entries \in {<<>>, EveryWeekday}
    /\ today = Today0
    /\ call = [op |-> "init"]
    /\ result = [status |-> "none"]
    /\ locals = NoLocals
    /\ cache = NewCache(1000, 24)
    /\ clock = 0

AddedDow == IF Len(entries) >= Len(EveryWeekday)
            THEN Len(entries) - Len(EveryWeekday)
            ELSE Len(entries)

AddDow ==
    /\ AddedDow < MaxDowEntries
    /\ \E k \in DowKinds : add_entry(k[1], k[2], k[3], NoMetrics)

CallDow ==
    \E w \in DowWeeks, c \in {None, "Exercise"} : detect_day_of_week_patterns(w, c)

NextDow == AddDow \/ CallDow

SpecDow == InitDow /\ [][NextDow]_vars

IsDowCall ==
    /\ call.op = "detect_day_of_week_patterns"
    /\ result.status = "ok"
    /\ result.best_day # None

(* the rows of the window of the call that fall on a weekday *)
DowRows(day) ==
    {i \in 1..Len(entries) :
        /\ entries[i].date \in (today - 7 * call.weeks)..today
        /\ (call.category # None => entries[i].category = call.category)
        /\ DayName(entries[i].date) = day}

DowCount(day) == Cardinality(DowRows(day))

DowPositive(day) ==
    Cardinality({i \in DowRows(day) : entries[i].mood = "positive"})

(* the positive rate of a weekday as <<positive, count>>, <<0, 1>> without events *)
DowRate(day) ==
    IF DowCount(day) = 0 THEN <<0, 1>> ELSE <<DowPositive(day), DowCount(day)>>

DayIndex(day) == CHOOSE i \in 1..7 : day_order[i] = day

DowRates == [d \in Range(day_order) |-> DowRate(d)]

DowCounts == [d \in Range(day_order) |-> <<DowCount(d), 1>>]

SameRat(a, b) == a[1] * b[2] = b[1] * a[2]

(* day is the earliest weekday, Monday first, with the largest Key *)
EarliestMax(day, Key) ==
    \A o \in Range(day_order) :
        /\ RatLeq(Key[o], Key[day])
        /\ (SameRat(Key[o], Key[day]) => DayIndex(day) <= DayIndex(o))

(* day is the earliest weekday, Monday first, with the smallest Key *)
EarliestMin(day, Key) ==
    \A o \in Range(day_order) :
        /\ RatLeq(Key[day], Key[o])
        /\ (SameRat(Key[o], Key[day]) => DayIndex(day) <= DayIndex(o))

AllRatesEqual ==
    \A o \in Range(day_order) :
        SameRat(DowRate(o), DowRate("Monday"))

(* C10: best_day and worst_day are the earliest weekday, Monday first,     *)
(* with the largest and the smallest positive_rate, most_active_day and    *)
(* least_active_day the earliest with the largest and the smallest count;  *)
(* with one positive rate on every weekday best_day is Monday.             *)
C10_DeterministicTieBreak ==
    IsDowCall =>
    /\ EarliestMax(result.best_day, DowRates)
    /\ EarliestMin(result.worst_day, DowRates)
    /\ EarliestMax(result.most_active_day, DowCounts)
    /\ EarliestMin(result.least_active_day, DowCounts)
    /\ (AllRatesEqual => result.best_day = "Monday")

C10_Witness ==
    /\ IsDowCall
    /\ AllRatesEqual
    /\ DowRate("Monday")[1] > 0
    /\ DowCount("Wednesday") = 2
    /\ result.best_day = "Monday"
    /\ result.most_active_day = "Wednesday"
    /\ result.least_active_day = "Monday"

-----------------------------------------------------------------------------
(* TimeSeriesAnalyzer.get_daily_summary *)

(* one summary per day of pd.date_range(start_date, end_date, freq='D').   *)
(* start_date and end_date are datetime.now() values, so the days of the   *)
(* range carry the time of day of the call, while df['date'] is parsed     *)
(* from 'YYYY-MM-DD' and is midnight: df['date'] == day selects the rows   *)
(* of the day only for a call made at midnight exactly.                    *)
DailySummaries(rows, start_date, end_date, at_midnight) ==
    [k \in 1..(end_date - start_date + 1) |->
        LET day == start_date + k - 1
            day_df == IF at_midnight
                      THEN SelectSeq(rows, LAMBDA e : e.date = day)
                      ELSE <<>>
        IN  [date |-> day,
             count |-> Len(day_df),
             categories |-> CategoryCounts(day_df),
             moods |-> MoodCounts(day_df)]]

GetDailySummaryOf(tbl, now, days, category, at_midnight) ==
    LET start_date == now - (days - 1)
        rows == get_entries_by_date_range(tbl, start_date, now, category)
    IN  IF rows = <<>>
        THEN [status |-> "ok", daily_summaries |-> <<>>]
        ELSE [status |-> "ok",
              daily_summaries |-> DailySummaries(rows, start_date, now, at_midnight)]

(* at_midnight: whether the clock reads 00:00:00.000000 at the call *)
get_daily_summary(days, category, at_midnight) ==
    /\ call' = [op |-> "get_daily_summary", days |-> days, category |-> category]
    /\ result' = GetDailySummaryOf(entries, today, days, category, at_midnight)
    /\ locals' = NoLocals
    /\ UNCHANGED <<entries, today, cache, clock>>

-----------------------------------------------------------------------------
(* PatternDetector.get_insights *)

(* the results detect_correlations can return: one for each order of the  *)
(* pairs of equal count                                                   *)
DetectCorrelationsChoices(tbl, now, weeks) ==
    LET rows == get_entries_by_date_range(tbl, now - 7 * weeks, now, None)
        pair_counts == PairCounts(rows)
    IN  IF rows = <<>>
        THEN {[status |-> "ok", correlations |-> <<>>,
               mood_after_activity |-> NoMetrics, activity_pairs |-> <<>>]}
        ELSE {[status |-> "ok",
               correlations |->
                   MoodSentences(rows) \o PairSentences(activity_pairs),
               mood_after_activity |-> MoodAfterActivity(rows),
               activity_pairs |-> activity_pairs] :
                 activity_pairs \in ActivityPairsChoices(pair_counts)}

(* a summary that reports the longest streak from 3 days on *)
InsightsSummaryLoose(day_patterns, streaks) ==
    LET summary_parts ==
            (IF streaks.current_streak >= 3
             THEN <<[kind |-> "on_streak", days |-> streaks.current_streak]>>
             ELSE <<>>)
            \o (IF streaks.longest_streak >= 3
                THEN <<[kind |-> "longest_streak", days |-> streaks.longest_streak]>>
                ELSE <<>>)
            \o (IF day_patterns.best_day # None
                THEN <<[kind |-> "best_mood_day", day |-> day_patterns.best_day]>>
                ELSE <<>>)
    IN  IF summary_parts # <<>> THEN summary_parts
        ELSE <<[kind |-> "keep_tracking"]>>

(* summary_parts joined by " | ", or the sentence for no part *)
InsightsSummary(day_patterns, streaks) ==
    LET summary_parts ==
            (IF streaks.current_streak >= 3
             THEN <<[kind |-> "on_streak", days |-> streaks.current_streak]>>
             ELSE <<>>)
            \o (IF streaks.longest_streak >= 7
                THEN <<[kind |-> "longest_streak", days |-> streaks.longest_streak]>>
                ELSE <<>>)
            \o (IF day_patterns.best_day # None
                THEN <<[kind |-> "best_mood_day", day |-> day_patterns.best_day]>>
                ELSE <<>>)
    IN  IF summary_parts # <<>> THEN summary_parts
        ELSE <<[kind |-> "keep_tracking"]>>

(* recommendations drawn from every correlation sentence *)
InsightsRecommendationsUncut(day_patterns, streaks, correlations) ==
    LET good == SelectSeq(correlations.correlations,
                          LAMBDA corr : corr.kind = "good_mood")
    IN  (IF streaks.current_streak = 0
         THEN <<[kind |-> "start_small"]>>
         ELSE IF streaks.current_streak < streaks.longest_streak
         THEN <<[kind |-> "close_to_record", days |-> streaks.longest_streak]>>
         ELSE <<>>)
        \o (IF day_patterns.worst_day # None
            THEN <<[kind |-> "be_mindful", day |-> day_patterns.worst_day]>>
            ELSE <<>>)
        \o [i \in 1..Len(good) |->
               [kind |-> "do_more", activity |-> good[i].category]]

(* a mindfulness recommendation only for a worst day other than the best *)
InsightsRecommendationsDistinct(day_patterns, streaks, correlations) ==
    LET top == SubSeq(correlations.correlations, 1,
                      Min2(3, Len(correlations.correlations)))
        good == SelectSeq(top, LAMBDA corr : corr.kind = "good_mood")
    IN  (IF streaks.current_streak = 0
         THEN <<[kind |-> "start_small"]>>
         ELSE IF streaks.current_streak < streaks.longest_streak
         THEN <<[kind |-> "close_to_record", days |-> streaks.longest_streak]>>
         ELSE <<>>)
        \o (IF day_patterns.worst_day # None
               /\ day_patterns.worst_day # day_patterns.best_day
            THEN <<[kind |-> "be_mindful", day |-> day_patterns.worst_day]>>
            ELSE <<>>)
        \o [i \in 1..Len(good) |->
               [kind |-> "do_more", activity |-> good[i].category]]

InsightsRecommendations(day_patterns, streaks, correlations) ==
    LET top == SubSeq(correlations.correlations, 1,
                      Min2(3, Len(correlations.correlations)))
        good == SelectSeq(top, LAMBDA corr : corr.kind = "good_mood")
    IN  (IF streaks.current_streak = 0
         THEN <<[kind |-> "start_small"]>>
         ELSE IF streaks.current_streak < streaks.longest_streak
         THEN <<[kind |-> "close_to_record", days |-> streaks.longest_streak]>>
         ELSE <<>>)
        \o (IF day_patterns.worst_day # None
            THEN <<[kind |-> "be_mindful", day |-> day_patterns.worst_day]>>
            ELSE <<>>)
        \o [i \in 1..Len(good) |->
               [kind |-> "do_more", activity |-> good[i].category]]

(* the results get_insights can return *)
GetInsightsChoices(tbl, now, weeks) ==
    LET day_patterns == DetectDayOfWeekPatternsOf(tbl, now, weeks, None)
        streaks == DetectStreaksOf(tbl, now, None, weeks * 7)
    IN  IF day_patterns.status # "ok"
        THEN {[status |-> day_patterns.status]}
        ELSE {[status |-> "ok",
               summary |-> InsightsSummary(day_patterns, streaks),
               day_patterns |-> day_patterns,
               streaks |-> streaks,
               correlations |-> correlations,
               recommendations |->
                   InsightsRecommendations(day_patterns, streaks, correlations)] :
                 correlations \in DetectCorrelationsChoices(tbl, now, weeks)}

get_insights(weeks) ==
    /\ call' = [op |-> "get_insights", weeks |-> weeks]
    /\ result' \in GetInsightsChoices(entries, today, weeks)
    /\ locals' = NoLocals
    /\ UNCHANGED <<entries, today, cache, clock>>

-----------------------------------------------------------------------------
(* Every analysis operation over one small table *)

AllKinds ==
    {<<Today0 - k, c[1], c[2]>> :
        k \in 0..1, c \in {<<"Exercise", "positive">>, <<"Study", "negative">>}}

AllWeeks == {0, 1}

InitAll ==
    /\ entries = <<>>
    /\ today = Today0
    /\ call = [op |-> "init"]
    /\ result = [status |-> "none"]
    /\ locals = NoLocals
    /\ cache = NewCache(1000, 24)
    /\ clock = 0

AddAll ==
    /\ Len(entries) < MaxAllEntries
    /\ \E k \in AllKinds : add_entry(k[1], k[2], k[3], NoMetrics)

CallWeeklyAll == \E w \in {None, W01} : weekly_statistics(w, None)

CallTrendAll == \E w \in AllWeeks : trend_analysis(None, None, 2, w)

CallCompareAll == compare_periods(W01, W02, None)

CallDailyAll ==
    \E days \in {1, 2}, at_midnight \in BOOLEAN :
        get_daily_summary(days, None, at_midnight)

CallDowAll ==
    \E w \in AllWeeks, c \in {None, "Study"} : detect_day_of_week_patterns(w, c)

CallStreakAll == \E days \in {0, 7} : detect_streaks(None, days)

CallCorrAll == \E w \in AllWeeks : detect_correlations(w)

CallInsightsAll == \E w \in AllWeeks : get_insights(w)

NextAll ==
    \/ AddAll
    \/ CallWeeklyAll
    \/ CallTrendAll
    \/ CallCompareAll
    \/ CallDailyAll
    \/ CallDowAll
    \/ CallStreakAll
    \/ CallCorrAll
    \/ CallInsightsAll

SpecAll == InitAll /\ [][NextAll]_vars

(* the rows of the table dated lo .. hi, of the category when one is given *)
StoredRows(lo, hi, category) ==
    {i \in 1..Len(entries) :
        /\ entries[i].date \in lo..hi
        /\ (category # None => entries[i].category = category)}

(* the Monday of the week a weekly_statistics call asks for *)
CallMonday ==
    IF call.week_iso = None THEN today - Weekday(today)
    ELSE ResolvedMonday(call.week_iso)

(* C11: an operation whose window or week holds no stored event returns    *)
(* its empty result and no error: weekly_statistics total_entries 0 with   *)
(* empty by_category, by_day, mood_distribution and metrics_summary;       *)
(* trend_analysis insufficient_data, strength 0, no daily_data;            *)
(* detect_day_of_week_patterns no best, worst, most or least active day    *)
(* and no patterns; detect_streaks current 0, longest 0, no history;       *)
(* detect_correlations no correlations, moods or pairs.                    *)
C11_EmptyResults ==
    /\ (call.op = "weekly_statistics"
            /\ StoredRows(CallMonday, CallMonday + 6, None) = {}) =>
          /\ result.status = "ok"
          /\ result.total_entries = 0
          /\ DOMAIN result.by_category = {}
          /\ result.by_day = <<>>
          /\ DOMAIN result.mood_distribution = {}
          /\ DOMAIN result.metrics_summary = {}
    /\ (call.op = "trend_analysis"
            /\ StoredRows(today - 7 * call.weeks, today, call.category) = {}) =>
          /\ result.status = "ok"
          /\ result.trend_direction = "insufficient_data"
          /\ result.trend_strength = Zero
          /\ result.daily_data = <<>>
    /\ (call.op = "detect_day_of_week_patterns"
            /\ StoredRows(today - 7 * call.weeks, today, call.category) = {}) =>
          /\ result.status = "ok"
          /\ result.best_day = None /\ result.worst_day = None
          /\ result.most_active_day = None /\ result.least_active_day = None
          /\ result.patterns = <<>>
    /\ (call.op = "detect_streaks"
            /\ StoredRows(today - call.days, today, call.category) = {}) =>
          /\ result.status = "ok"
          /\ result.current_streak = 0 /\ result.longest_streak = 0
          /\ result.streak_history = <<>>
    /\ (call.op = "detect_correlations"
            /\ StoredRows(today - 7 * call.weeks, today, None) = {}) =>
          /\ result.status = "ok"
          /\ result.correlations = <<>>
          /\ DOMAIN result.mood_after_activity = {}
          /\ result.activity_pairs = <<>>

C11_Witness ==
    /\ call.op = "detect_streaks"
    /\ Len(entries) = 2
    /\ StoredRows(today - call.days, today, call.category) = {}
    /\ result.longest_streak = 0
    /\ result.streak_history = <<>>

(* C12 (as claimed): no analysis operation ends in a division fault; with  *)
(* weeks = 0 and an event dated today detect_day_of_week_patterns and      *)
(* get_insights return a result whose avg_entries_per_week is 0.           *)
C12_DivisionGuards ==
    /\ result.status # "ZeroDivisionError"
    /\ (call.op = "detect_day_of_week_patterns" /\ call.weeks = 0
            /\ StoredRows(today, today, call.category) # {}) =>
          /\ result.status = "ok"
          /\ \A d \in Range(day_order) :
                result.day_analysis[d].avg_entries_per_week = Zero

-----------------------------------------------------------------------------
(* Week identifiers, well formed and not, given to weekly_statistics and   *)
(* compare_periods                                                         *)

W00 == <<"2", "0", "2", "6", "-", "W", "0", "0">>

W53 == <<"2", "0", "2", "6", "-", "W", "5", "3">>

W54 == <<"2", "0", "2", "6", "-", "W", "5", "4">>

WithoutDashW == <<"2", "0", "2", "6", "W", "0", "2">>

NonNumericWeek == <<"2", "0", "2", "6", "-", "W", "0", "x">>

TwoDashW == <<"2", "0", "2", "6", "-", "W", "0", "2", "-", "W", "0", "3">>

PeriodIds == {W00, W02, W53, W54, WithoutDashW, NonNumericWeek, TwoDashW}

PeriodDates == {Ord(2025, 12, 29), Jan12}

InitPeriod ==
    /\ entries = <<>>
    /\ today = Today0
    /\ call = [op |-> "init"]
    /\ result = [status |-> "none"]
    /\ locals = NoLocals
    /\ cache = NewCache(1000, 24)
    /\ clock = 0

AddPeriod ==
    /\ Len(entries) < MaxPeriodEntries
    /\ \E d \in PeriodDates : add_entry(d, "Exercise", "positive", NoMetrics)

CallWeeklyPeriod == \E w \in PeriodIds : weekly_statistics(w, None)

CallComparePeriod ==
    \E p1 \in PeriodIds, p2 \in PeriodIds : compare_periods(p1, p2, None)

NextPeriod == AddPeriod \/ CallWeeklyPeriod \/ CallComparePeriod

SpecPeriod == InitPeriod /\ [][NextPeriod]_vars

AllDigits(s) == s # <<>> /\ \A i \in 1..Len(s) : IsDigit(s[i])

(* <year>-W<week>: four digits of a year from 1000 on, "-W", and the       *)
(* digits of a week number 0 .. 53                                         *)
WellFormedWeekId(s) ==
    /\ Len(s) >= 7
    /\ AllDigits(SubSeq(s, 1, 4)) /\ s[1] # "0"
    /\ s[5] = "-" /\ s[6] = "W"
    /\ AllDigits(SubSeq(s, 7, Len(s)))
    /\ DigitsVal(SubSeq(s, 7, Len(s))) <= 53

(* the first day of week w of 2026 in the numbering of the code, where *)
(* week 1 starts on Monday 2026-01-05                                  *)
MondayOf2026(s) == Jan05 + 7 * (DigitsVal(SubSeq(s, 7, Len(s))) - 1)

NoDataStructure(r) ==
    /\ r.status = "ok"
    /\ r.total_entries = 0
    /\ DOMAIN r.by_category = {} /\ r.by_day = <<>>
    /\ DOMAIN r.mood_distribution = {} /\ DOMAIN r.metrics_summary = {}

-----------------------------------------------------------------------------
(* C14 (as claimed): trend_analysis always returns the mean, the max and   *)
(* the min of the series values in its summary, and with an empty series   *)
(* (no event in the window) the three are present and equal to 0.          *)
C14_TrendSummaryStatistics ==
    IsTrendCall =>
    /\ {"mean_value", "max_value", "min_value"} \subseteq DOMAIN result.summary
    /\ IF result.daily_data = <<>>
       THEN /\ result.summary.mean_value = Zero
            /\ result.summary.max_value = 0
            /\ result.summary.min_value = 0
       ELSE LET y == SeriesValues
            IN  /\ result.summary.mean_value[1] * Len(y)
                      = SumSeq(y) * result.summary.mean_value[2]
                /\ \E i \in 1..Len(y) : y[i] = result.summary.max_value
                /\ \A i \in 1..Len(y) : y[i] <= result.summary.max_value
                /\ \E i \in 1..Len(y) : y[i] = result.summary.min_value
                /\ \A i \in 1..Len(y) : y[i] >= result.summary.min_value

-----------------------------------------------------------------------------
(* Trend directions: a new table, a fortnight of rising counts and ten     *)
(* days of nearly level counts                                             *)

(* n rows on each of the dates first .. first + Len(counts) - 1 *)
RECURSIVE CountsFrom(_, _)
CountsFrom(first, counts) ==
    IF counts = <<>> THEN <<>>
    ELSE Repeat(Row(first, "Exercise", "positive"), Head(counts))
            \o CountsFrom(first + 1, Tail(counts))

(* daily counts 1,1,1,1,1,1,1,2,2,2,2,2,2,2 on the 14 days up to today - 2 *)
Fortnight ==
    WithIds(CountsFrom(Today0 - 15, <<1, 1, 1, 1, 1, 1, 1, 2, 2, 2, 2, 2, 2, 2>>))

(* daily counts 1,1,1,1,1,2,1,1,1,1 on the 10 days up to today - 2 *)
NearlyLevel ==
    WithIds(CountsFrom(Today0 - 11, <<1, 1, 1, 1, 1, 2, 1, 1, 1, 1>>))

DirectionSeeds == {<<>>, Fortnight, NearlyLevel}

InitDirection ==
    /\ entries \in DirectionSeeds
    /\ today = Today0
    /\ call = [op |-> "init"]
    /\ result = [status |-> "none"]
    /\ locals = NoLocals
    /\ cache = NewCache(1000, 24)
    /\ clock = 0

(* the rows added since the start *)
AddedDirection ==
    IF Len(entries) >= Len(Fortnight) THEN Len(entries) - Len(Fortnight)
    ELSE IF Len(entries) >= Len(NearlyLevel) THEN Len(entries) - Len(NearlyLevel)
    ELSE Len(entries)

AddDirection ==
    /\ AddedDirection < MaxDirectionEntries
    /\ \E d \in {Today0 - 1, Today0}, mt \in {NoMetrics, [k \in {"distance_km"} |-> 3]} :
          add_entry(d, "Exercise", "positive", mt)

CallDirection ==
    \E metric \in {None, "distance_km"} : trend_analysis(None, metric, 2, 4)

NextDirection == AddDirection \/ CallDirection

SpecDirection == InitDirection /\ [][NextDirection]_vars

(* numerator and denominator (> 0) of the least-squares slope over         *)
(* (index 0..n-1, value)                                                   *)
SlopeNum(y) ==
    LET n == Len(y)
    IN  n * SumSeq([i \in 1..n |-> (i - 1) * y[i]])
          - SumSeq([i \in 1..n |-> i - 1]) * SumSeq(y)

SlopeDen(y) ==
    LET n == Len(y)
    IN  n * SumSeq([i \in 1..n |-> (i - 1) * (i - 1)])
          - SumSeq([i \in 1..n |-> i - 1]) * SumSeq([i \in 1..n |-> i - 1])

-----------------------------------------------------------------------------
(* the rows a trend_analysis call fetches *)
TrendRows == StoredRows(today - 7 * call.weeks, today, call.category)

TrendDatesFetched == {entries[i].date : i \in TrendRows}

(* whether the metric asked for is a column of the frame *)
MetricUsable ==
    /\ call.metric # None
    /\ \E i \in TrendRows : call.metric \in DOMAIN entries[i].metrics

RECURSIVE MetricTotal(_, _)
MetricTotal(rowset, key) ==
    IF rowset = {} THEN 0
    ELSE LET i == CHOOSE j \in rowset : TRUE
         IN  (IF key \in DOMAIN entries[i].metrics THEN entries[i].metrics[key] ELSE 0)
             + MetricTotal(rowset \ {i}, key)

(* C17: daily_data has one entry for each distinct date with an event in   *)
(* the window and none for another date, in strictly ascending date order; *)
(* without a usable metric (none asked for, or none of the events carries  *)
(* it) each value is the number of events of its date, so the values sum   *)
(* to the number of events fetched; with a usable metric each value is the *)
(* sum of the metric over the events of its date.                          *)
C17_SparseDailySeries ==
    IsTrendCall =>
    LET dd == result.daily_data
    IN  /\ {dd[i].date : i \in 1..Len(dd)} = TrendDatesFetched
        /\ Len(dd) = Cardinality(TrendDatesFetched)
        /\ \A i \in 1..(Len(dd) - 1) : dd[i].date < dd[i + 1].date
        /\ \A i \in 1..Len(dd) :
              dd[i].value =
                  IF MetricUsable
                  THEN MetricTotal({j \in TrendRows : entries[j].date = dd[i].date},
                                   call.metric)
                  ELSE Cardinality({j \in TrendRows : entries[j].date = dd[i].date})
        /\ (~MetricUsable => SumSeq(SeriesValues) = Cardinality(TrendRows))

C17_Witness ==
    /\ IsTrendCall
    /\ call.metric = "distance_km" /\ ~MetricUsable
    /\ Cardinality(TrendRows) = 3
    /\ TrendDatesFetched = {today - 3, today}
    /\ Len(result.daily_data) = 2
    /\ result.daily_data[1].value = 2

(* C18: the moving_avg of the i-th series entry is the mean of the values  *)
(* of the last min(i, window_days) series entries up to it, whatever the   *)
(* calendar gaps between them; the first entry's moving_avg is its value.  *)
C18_MovingAverage ==
    IsTrendCall =>
    LET dd == result.daily_data
        w == call.window
    IN  \A i \in 1..Len(dd) :
            LET k == IF i < w THEN i ELSE w
                total == SumSeq([j \in 1..k |-> dd[i - k + j].value])
            IN  /\ dd[i].moving_avg[2] > 0
                /\ dd[i].moving_avg[1] * k = total * dd[i].moving_avg[2]
                /\ (i = 1 => dd[i].moving_avg = <<dd[i].value, 1>>)

C18_Witness ==
    /\ IsTrendCall /\ call.window = 2
    /\ Len(result.daily_data) = 3
    /\ result.daily_data[2].date - result.daily_data[1].date = 2
    /\ SeriesValues = <<3, 1, 3>>
    /\ result.daily_data[2].moving_avg = <<2, 1>>
    /\ result.daily_data[3].moving_avg = <<2, 1>>

-----------------------------------------------------------------------------
(* C19: streak_history is the partition of the distinct event dates of the *)
(* window into maximal runs of calendar-consecutive dates, in ascending    *)
(* order: each run has length = end - start + 1 = the number of its dates, *)
(* all of them event dates; between two runs lies at least one date        *)
(* without events; the lengths sum to the number of distinct event dates;  *)
(* longest_streak is the largest length, 0 without runs.                   *)
C19_StreakPartition ==
    IsStreakCall =>
    LET h == result.streak_history
    IN  /\ \A i \in 1..Len(h) :
              /\ h[i].length = h[i].end - h[i].start + 1
              /\ h[i].length >= 1
              /\ \A d \in h[i].start..h[i].end : d \in Qualifying
              /\ (h[i].start - 1) \notin Qualifying
              /\ (h[i].end + 1) \notin Qualifying
        /\ \A i \in 1..(Len(h) - 1) : h[i + 1].start - h[i].end >= 2
        /\ Qualifying = UNION {h[i].start..h[i].end : i \in 1..Len(h)}
        /\ SumSeq([i \in 1..Len(h) |-> h[i].length]) = Cardinality(Qualifying)
        /\ (h = <<>> => result.longest_streak = 0)
        /\ (h # <<>> =>
              /\ \E i \in 1..Len(h) : h[i].length = result.longest_streak
              /\ \A i \in 1..Len(h) : h[i].length <= result.longest_streak)

C19_Witness ==
    /\ IsStreakCall
    /\ Len(result.streak_history) = 2
    /\ result.streak_history[1].length = 2
    /\ result.streak_history[2].length = 1
    /\ result.streak_history[2].start - result.streak_history[1].end = 2
    /\ Cardinality(Qualifying) = 3
    /\ Len(entries) = 4

-----------------------------------------------------------------------------
(* Pairs of four categories: a new table and a table of five busy days *)

(* one row of each category of cats on date d, Exercise rows positive *)
DayOf(d, cats) ==
    [i \in 1..Len(cats) |->
        Row(d, cats[i], IF cats[i] = "Exercise" THEN "positive" ELSE "neutral")]

(* co-occurrences: Exercise-Sleep 5, Exercise-Study 4, Sleep-Study 4, and  *)
(* 3 for each pair with Work                                               *)
Busy ==
    WithIds(DayOf(Today0 - 5, CategoryOrder)
            \o DayOf(Today0 - 4, CategoryOrder)
            \o DayOf(Today0 - 3, CategoryOrder)
            \o DayOf(Today0 - 2, <<"Exercise", "Sleep">>)
            \o DayOf(Today0 - 1, <<"Exercise", "Sleep", "Study">>))

InitPairs ==
    /\ entries \in {<<>>, Busy}
    /\ today = Today0
    /\ call = [op |-> "init"]
    /\ result = [status |-> "none"]
    /\ locals = NoLocals
    /\ cache = NewCache(1000, 24)
    /\ clock = 0

AddedPairs == IF Len(entries) >= Len(Busy) THEN Len(entries) - Len(Busy)
              ELSE Len(entries)

AddPairs ==
    /\ AddedPairs < MaxPairEntries
    /\ \E d \in {Today0 - 1, Today0}, c \in {"Study", "Work"} :
          add_entry(d, c, "neutral", NoMetrics)

CallPairs == \E w \in CorrWeeks : detect_correlations(w)

NextPairs == AddPairs \/ CallPairs

SpecPairs == InitPairs /\ [][NextPairs]_vars

(* the number of dates of the window on which both categories have an event *)
CoOccurrence(a, b) == Cardinality(DatesOf(a) \cap DatesOf(b))

TogetherSentences ==
    SelectSeq(result.correlations, LAMBDA corr : corr.kind = "together")

(* C20: activity_pairs holds, once each, exactly the pairs of distinct     *)
(* categories with events on the same date on at least 3 dates of the      *)
(* window, with that number as count, in non-increasing order of count;    *)
(* the first 5 of them at most give an 'often occur together' sentence, in *)
(* that order, and in correlations no pair sentence comes before a mood    *)
(* sentence.                                                               *)
C20_SignificantPairs ==
    IsCorrCall =>
    LET ap == result.activity_pairs
        ts == TogetherSentences
        corr == result.correlations
    IN  /\ \A i \in 1..Len(ap) :
              /\ ap[i].activities[1] # ap[i].activities[2]
              /\ ap[i].co_occurrence_count
                    = CoOccurrence(ap[i].activities[1], ap[i].activities[2])
              /\ ap[i].co_occurrence_count >= 3
        /\ \A i, j \in 1..Len(ap) :
              i # j => {ap[i].activities[1], ap[i].activities[2]}
                          # {ap[j].activities[1], ap[j].activities[2]}
        /\ \A a \in WindowCategories, b \in WindowCategories :
              (a # b /\ CoOccurrence(a, b) >= 3) =>
                  \E i \in 1..Len(ap) :
                      {ap[i].activities[1], ap[i].activities[2]} = {a, b}
        /\ \A i \in 1..(Len(ap) - 1) :
              ap[i].co_occurrence_count >= ap[i + 1].co_occurrence_count
        /\ Len(ts) = (IF Len(ap) < 5 THEN Len(ap) ELSE 5)
        /\ \A i \in 1..Len(ts) :
              /\ ts[i].activities = ap[i].activities
              /\ ts[i].count = ap[i].co_occurrence_count
        /\ \A i, j \in 1..Len(corr) :
              (corr[i].kind = "together" /\ corr[j].kind = "good_mood") => j < i

C20_Witness ==
    /\ IsCorrCall
    /\ Len(result.activity_pairs) = 6
    /\ Len(TogetherSentences) = 5
    /\ Len(result.correlations) = 6
    /\ result.correlations[1].kind = "good_mood"
    /\ result.activity_pairs[1].co_occurrence_count = 5
    /\ result.activity_pairs[6].co_occurrence_count = 3

-----------------------------------------------------------------------------
AnalysisOps ==
    {"weekly_statistics", "trend_analysis", "compare_periods",
     "get_daily_summary", "detect_day_of_week_patterns", "detect_streaks",
     "detect_correlations", "get_insights"}

(* the results the operation of the call can return on the stored events   *)
(* and the current date alone; get_daily_summary reads the time of day and *)
(* detect_correlations leaves the order of pairs of equal count open       *)
FreshResults ==
    CASE call.op = "weekly_statistics" ->
            {WeeklyStatisticsOf(entries, today, call.week_iso, call.category)}
      [] call.op = "trend_analysis" ->
            {TrendAnalysisOf(entries, today, call.category, call.metric,
                             call.window, call.weeks)}
      [] call.op = "compare_periods" ->
            {ComparePeriodsOf(entries, today, call.period1, call.period2,
                              call.category)}
      [] call.op = "get_daily_summary" ->
            {GetDailySummaryOf(entries, today, call.days, call.category, m) :
                m \in BOOLEAN}
      [] call.op = "detect_day_of_week_patterns" ->
            {DetectDayOfWeekPatternsOf(entries, today, call.weeks, call.category)}
      [] call.op = "detect_streaks" ->
            {DetectStreaksOf(entries, today, call.category, call.days)}
      [] call.op = "detect_correlations" ->
            DetectCorrelationsChoices(entries, today, call.weeks)
      [] call.op = "get_insights" ->
            GetInsightsChoices(entries, today, call.weeks)

-----------------------------------------------------------------------------
(* Weekday moods over tables whose best and worst positive rates are       *)
(* exactly one tenth apart                                                 *)

MaxMoodEntries == 2

(* n rows of Exercise on date d, the first positive of them positive and   *)
(* the others negative                                                     *)
MoodDay(d, n, positive) ==
    Repeat(Row(d, "Exercise", "positive"), positive)
        \o Repeat(Row(d, "Exercise", "negative"), n - positive)

(* Monday 4 of 5 positive, Tuesday 7 of 10, every other weekday 3 of 4 *)
TenthGap ==
    WithIds(MoodDay(Today0 - 6, 4, 3) \o MoodDay(Today0 - 5, 4, 3)
            \o MoodDay(Today0 - 4, 4, 3) \o MoodDay(Today0 - 3, 4, 3)
            \o MoodDay(Today0 - 2, 5, 4) \o MoodDay(Today0 - 1, 10, 7)
            \o MoodDay(Today0, 4, 3))

(* Monday 1 of 10 positive, no event on another weekday *)
OneInTen == WithIds(MoodDay(Today0 - 2, 10, 1))

MoodSeeds == {<<>>, TenthGap, OneInTen}

MoodKinds ==
    {<<Today0, "Exercise", "positive">>, <<Today0, "Exercise", "negative">>,
     <<Today0 - 1, "Study", "positive">>, <<Today0 - 1, "Exercise", "negative">>}

InitMood ==
    /\ entries \in MoodSeeds
    /\ today = Today0
    /\ call = [op |-> "init"]
    /\ result = [status |-> "none"]
    /\ locals = NoLocals
    /\ cache = NewCache(1000, 24)
    /\ clock = 0

AddedMood ==
    IF Len(entries) >= Len(TenthGap) THEN Len(entries) - Len(TenthGap)
    ELSE IF Len(entries) >= Len(OneInTen) THEN Len(entries) - Len(OneInTen)
    ELSE Len(entries)

AddMood ==
    /\ AddedMood < MaxMoodEntries
    /\ \E k \in MoodKinds : add_entry(k[1], k[2], k[3], NoMetrics)

CallMood ==
    \E c \in {None, "Exercise"} : detect_day_of_week_patterns(4, c)

NextMood == AddMood \/ CallMood

SpecMood == InitMood /\ [][NextMood]_vars

(* the sentences of one kind in the patterns of the result *)
PatternsOfKind(kind) ==
    {i \in 1..Len(result.patterns) : result.patterns[i].kind = kind}

(* C21: a most-active sentence is in patterns iff the most active day has  *)
(* a count above 0, a least-active sentence iff the least active day has   *)
(* strictly fewer events than the most active one; the best-mood and the   *)
(* lowest-mood sentence come together, and only if best_day # worst_day    *)
(* and positive_rate(best) > positive_rate(worst) + 1/10, so that a gap of *)
(* exactly one tenth emits neither; patterns has 1 to 4 sentences.         *)
C21_PatternThresholds ==
    IsDowCall =>
    /\ (PatternsOfKind("most_active") # {}
            <=> DowCount(result.most_active_day) > 0)
    /\ (PatternsOfKind("least_active") # {}
            <=> DowCount(result.least_active_day)
                    < DowCount(result.most_active_day))
    /\ (PatternsOfKind("best_mood") # {} <=> PatternsOfKind("lowest_mood") # {})
    /\ (PatternsOfKind("best_mood") # {} =>
            /\ result.best_day # result.worst_day
            /\ ExceedsByTenthExact(DowRate(result.best_day),
                                   DowRate(result.worst_day)))
    /\ Len(result.patterns) \in 1..4

-----------------------------------------------------------------------------
(* Insights over tables with a record run, a run up to yesterday and a run *)
(* of two days                                                             *)

MaxInsightEntries == 2

(* a run of seven days that ends three days ago; four categories with      *)
(* three positive events each on its first four days                       *)
Record ==
    WithIds(Repeat(Row(Today0 - 9, "Exercise", "positive"), 3)
            \o Repeat(Row(Today0 - 8, "Sleep", "positive"), 3)
            \o Repeat(Row(Today0 - 7, "Study", "positive"), 3)
            \o Repeat(Row(Today0 - 6, "Work", "positive"), 3)
            \o <<Row(Today0 - 5, "Exercise", "positive"),
                 Row(Today0 - 4, "Exercise", "positive"),
                 Row(Today0 - 3, "Exercise", "positive")>>)

(* one event on each of the eight days up to yesterday *)
LongRun ==
    WithIds([i \in 1..8 |-> Row(Today0 - 9 + i, "Exercise", "positive")])

(* one event two days ago and one yesterday *)
Recent ==
    WithIds(<<Row(Today0 - 2, "Work", "neutral"),
              Row(Today0 - 1, "Work", "neutral")>>)

(* one event twenty days ago *)
LongAgo == WithIds(<<Row(Today0 - 20, "Exercise", "positive")>>)

InsightSeeds == {<<>>, Record, LongRun, Recent, LongAgo}

InsightKinds ==
    {<<Today0 - k, "Exercise", "positive">> : k \in 0..2}
    \cup {<<Today0 - k, "Study", "negative">> : k \in 0..2}

InitInsights ==
    /\ entries \in InsightSeeds
    /\ today = Today0
    /\ call = [op |-> "init"]
    /\ result = [status |-> "none"]
    /\ locals = NoLocals
    /\ cache = NewCache(1000, 24)
    /\ clock = 0

(* the rows added to the seed table *)
AddedInsights ==
    Len(entries)
        - SetMax({Len(seed) : seed \in
                    {t \in InsightSeeds :
                        /\ Len(t) <= Len(entries)
                        /\ SubSeq(entries, 1, Len(t)) = t}})

AddInsights ==
    /\ AddedInsights < MaxInsightEntries
    /\ \E k \in InsightKinds : add_entry(k[1], k[2], k[3], NoMetrics)

CallInsights == \E weeks \in {1, 2} : get_insights(weeks)

NextInsights == AddInsights \/ CallInsights

SpecInsights == InitInsights /\ [][NextInsights]_vars

IsInsightsCall == call.op = "get_insights" /\ result.status = "ok"

(* the event dates within [today - 7 * weeks, today] *)
InsightDates ==
    {entries[i].date : i \in
        {j \in 1..Len(entries) :
            entries[j].date \in (today - 7 * call.weeks)..today}}

(* the run of event dates that ends today *)
InsightCurrent == RunEndingAt(InsightDates, today)

(* the longest run of event dates *)
InsightLongest ==
    IF InsightDates = {} THEN 0
    ELSE SetMax({RunEndingAt(InsightDates, d) : d \in InsightDates})

SummaryKinds == [i \in 1..Len(result.summary) |-> result.summary[i].kind]

(* C22: the summary of get_insights holds, in this order, a current-streak *)
(* part iff current_streak >= 3, a longest-streak part iff longest_streak  *)
(* >= 7 and a best-mood-day part iff best_day is set, each with its number *)
(* or day; it is the keep-tracking sentence iff none of the three holds.   *)
(* The streaks are those of detect_streaks over the last 7 * weeks days.   *)
C22_InsightsSummary ==
    IsInsightsCall =>
    /\ result.streaks = DetectStreaksOf(entries, today, None, 7 * call.weeks)
    /\ result.streaks.current_streak = InsightCurrent
    /\ result.streaks.longest_streak = InsightLongest
    /\ SummaryKinds =
          IF InsightCurrent < 3 /\ InsightLongest < 7
             /\ result.day_patterns.best_day = None
          THEN <<"keep_tracking">>
          ELSE (IF InsightCurrent >= 3 THEN <<"on_streak">> ELSE <<>>)
               \o (IF InsightLongest >= 7 THEN <<"longest_streak">> ELSE <<>>)
               \o (IF result.day_patterns.best_day # None
                   THEN <<"best_mood_day">> ELSE <<>>)
    /\ \A i \in 1..Len(result.summary) :
          LET part == result.summary[i]
          IN  /\ part.kind = "on_streak" => part.days = InsightCurrent
              /\ part.kind = "longest_streak" => part.days = InsightLongest
              /\ part.kind = "best_mood_day"
                    => part.day = result.day_patterns.best_day

(* the week-long window cuts the run of eight days to seven, and an event  *)
(* today continues it: all three parts                                     *)
C22_Witness ==
    /\ IsInsightsCall /\ call.weeks = 1
    /\ Len(entries) = Len(LongRun) + 1
    /\ InsightCurrent = 8 /\ InsightLongest = 8
    /\ SummaryKinds = <<"on_streak", "longest_streak", "best_mood_day">>


RecommendationKinds ==
    [i \in 1..Len(result.recommendations) |-> result.recommendations[i].kind]

(* the mood sentences among the first three correlation sentences *)
TopGoodMood ==
    LET c == result.correlations.correlations
    IN  SelectSeq(SubSeq(c, 1, Min2(3, Len(c))),
                  LAMBDA corr : corr.kind = "good_mood")

(* C23: recommendations holds, in this order, at most one streak           *)
(* recommendation (start small iff current_streak = 0, otherwise close to  *)
(* the record iff current_streak < longest_streak), the mindfulness        *)
(* recommendation iff worst_day is set, and one do-more recommendation for *)
(* each mood sentence among the first 3 correlation sentences, in their    *)
(* order; there are at most 5 recommendations.                             *)
C23_InsightsRecommendations ==
    IsInsightsCall =>
    LET recs == result.recommendations
        streak_part ==
            IF InsightCurrent = 0 THEN <<"start_small">>
            ELSE IF InsightCurrent < InsightLongest THEN <<"close_to_record">>
            ELSE <<>>
        mindful_part ==
            IF result.day_patterns.worst_day # None THEN <<"be_mindful">>
            ELSE <<>>
        before == Len(streak_part) + Len(mindful_part)
    IN  /\ RecommendationKinds =
              streak_part \o mindful_part
                  \o [i \in 1..Len(TopGoodMood) |-> "do_more"]
        /\ \A i \in 1..Len(recs) :
              /\ recs[i].kind = "close_to_record"
                    => recs[i].days = InsightLongest
              /\ recs[i].kind = "be_mindful"
                    => recs[i].day = result.day_patterns.worst_day
              /\ recs[i].kind = "do_more"
                    => recs[i].activity = TopGoodMood[i - before].category
        /\ Len(recs) <= 5

(* four categories correlate with good mood and the record run is over:    *)
(* start small, mindfulness and the first three categories                 *)
C23_Witness ==
    /\ IsInsightsCall /\ call.weeks = 2
    /\ entries = Record
    /\ Len(SelectSeq(result.correlations.correlations,
                     LAMBDA corr : corr.kind = "good_mood")) = 4
    /\ RecommendationKinds =
          <<"start_small", "be_mindful", "do_more", "do_more", "do_more">>
    /\ result.recommendations[5].activity = "Study"

-----------------------------------------------------------------------------
(* the stored events of the category of the call that are dated on day *)
StoredOn(day) == StoredRows(day, day, call.category)

(* C24 (as claimed): get_daily_summary(days) with an event in the window   *)
(* returns one summary for each of the days consecutive dates that end     *)
(* today, in ascending order; the count of a summary is the number of      *)
(* stored events of its date, with no categories and no moods for 0, so    *)
(* the counts sum to the number of events of the window; without an event  *)
(* in the window the list is empty.                                        *)
C24_DailySummary ==
    call.op = "get_daily_summary" =>
    LET ds == result.daily_summaries
        first == today - (call.days - 1)
    IN  IF StoredRows(first, today, call.category) = {}
        THEN ds = <<>>
        ELSE /\ Len(ds) = call.days
             /\ \A k \in 1..Len(ds) :
                   /\ ds[k].date = first + k - 1
                   /\ ds[k].count = Cardinality(StoredOn(ds[k].date))
                   /\ (ds[k].count = 0 =>
                          /\ DOMAIN ds[k].categories = {}
                          /\ DOMAIN ds[k].moods = {})
             /\ SumSeq([k \in 1..Len(ds) |-> ds[k].count])
                   = Cardinality(StoredRows(first, today, call.category))

-----------------------------------------------------------------------------
(* ExtractionCache (utils/cache.py) *)

MaxCacheOps == 4

(* _hash_input: the SHA-256 digest of the text, distinct for distinct      *)
(* texts of the model                                                      *)
HashInput(text) == <<"sha256", text>>

CacheKeys(items) == {items[i].key : i \in 1..Len(items)}

(* now - timestamp > self.ttl *)
Expired(item, now, ttl) == now - item.timestamp > ttl

(* min(self._cache.items(), key=lambda x: x[1][1])[0]: the first entry, in *)
(* insertion order, that no entry is older than                            *)
OldestIndex(items) ==
    CHOOSE i \in 1..Len(items) :
        /\ \A j \in 1..Len(items) : items[i].timestamp <= items[j].timestamp
        /\ \A j \in 1..(i - 1) : items[j].timestamp > items[i].timestamp

Without(items, i) == SubSeq(items, 1, i - 1) \o SubSeq(items, i + 1, Len(items))

(* _evict_oldest *)
EvictOldest(c) ==
    IF c.items = <<>> THEN c
    ELSE [c EXCEPT !.items = Without(c.items, OldestIndex(c.items)),
                   !.stats.evictions = @ + 1]

(* self._cache[key] = (result, now): a key of the dict keeps its place *)
SetItem(items, key, value, now) ==
    IF key \in CacheKeys(items)
    THEN [i \in 1..Len(items) |->
             IF items[i].key = key
             THEN [key |-> key, value |-> value, timestamp |-> now]
             ELSE items[i]]
    ELSE Append(items, [key |-> key, value |-> value, timestamp |-> now])

StoreOf(c, user_input, value, now) ==
    LET key == HashInput(user_input)
        c1 == IF Len(c.items) >= c.max_size /\ key \notin CacheKeys(c.items)
              THEN EvictOldest(c)
              ELSE c
    IN  [c1 EXCEPT !.items = SetItem(c1.items, key, value, now),
                   !.stats.stores = @ + 1]

(* the time of a call: the clock has not moved since the last call, or it  *)
(* has moved by an hour                                                    *)
Nows == clock..Min2(clock + 1, MaxCacheOps)

CacheCalls == cache.stats.hits + cache.stats.misses + cache.stats.stores

CacheFrame == UNCHANGED <<entries, today, locals>>

store(user_input, value) ==
    /\ CacheCalls < MaxCacheOps
    /\ \E now \in Nows :
          /\ clock' = now
          /\ cache' = StoreOf(cache, user_input, value, now)
    /\ call' = [op |-> "store", user_input |-> user_input, value |-> value]
    /\ result' = [status |-> "ok"]
    /\ CacheFrame

(* a get that moves the entry it returns to the present *)
GetRefreshing(user_input) ==
    LET key == HashInput(user_input)
        at == {i \in 1..Len(cache.items) : cache.items[i].key = key}
    IN  /\ CacheCalls < MaxCacheOps
        /\ \E now \in Nows :
              /\ clock' = now
              /\ IF at = {}
                 THEN /\ cache' = [cache EXCEPT !.stats.misses = @ + 1]
                      /\ result' = [status |-> "ok", value |-> None]
                 ELSE LET i == CHOOSE j \in at : TRUE
                      IN  IF Expired(cache.items[i], now, cache.ttl)
                          THEN /\ cache' = [cache EXCEPT
                                              !.items = Without(cache.items, i),
                                              !.stats.misses = @ + 1]
                               /\ result' = [status |-> "ok", value |-> None]
                          ELSE /\ cache' = [cache EXCEPT
                                              !.items[i].timestamp = now,
                                              !.stats.hits = @ + 1]
                               /\ result' = [status |-> "ok",
                                             value |-> cache.items[i].value]
        /\ call' = [op |-> "get", user_input |-> user_input]
        /\ CacheFrame

get(user_input) ==
    LET key == HashInput(user_input)
        at == {i \in 1..Len(cache.items) : cache.items[i].key = key}
    IN  /\ CacheCalls < MaxCacheOps
        /\ \E now \in Nows :
              /\ clock' = now
              /\ IF at = {}
                 THEN /\ cache' = [cache EXCEPT !.stats.misses = @ + 1]
                      /\ result' = [status |-> "ok", value |-> None]
                 ELSE LET i == CHOOSE j \in at : TRUE
                      IN  IF Expired(cache.items[i], now, cache.ttl)
                          THEN /\ cache' = [cache EXCEPT
                                              !.items = Without(cache.items, i),
                                              !.stats.misses = @ + 1]
                               /\ result' = [status |-> "ok", value |-> None]
                          ELSE /\ cache' = [cache EXCEPT !.stats.hits = @ + 1]
                               /\ result' = [status |-> "ok",
                                             value |-> cache.items[i].value]
        /\ call' = [op |-> "get", user_input |-> user_input]
        /\ CacheFrame

clear ==
    /\ cache' = [cache EXCEPT !.items = <<>>]
    /\ call' = [op |-> "clear"]
    /\ result' = [status |-> "ok"]
    /\ UNCHANGED clock
    /\ CacheFrame

cleanup_expired ==
    /\ \E now \in Nows :
          LET kept == SelectSeq(cache.items,
                                LAMBDA item : ~Expired(item, now, cache.ttl))
          IN  /\ clock' = now
              /\ cache' = [cache EXCEPT !.items = kept]
              /\ result' = [status |-> "ok",
                            removed |-> Len(cache.items) - Len(kept)]
    /\ call' = [op |-> "cleanup_expired"]
    /\ CacheFrame

CacheInputs == {"ran 5 km", "read 50 pages", "slept 8 hours"}

InitCache ==
    /\ entries = <<>>
    /\ today = Today0
    /\ call = [op |-> "init"]
    /\ result = [status |-> "none"]
    /\ locals = NoLocals
    /\ \E max_size \in {1, 2} : cache = NewCache(max_size, 1)
    /\ clock = 0

CallStore == \E t \in CacheInputs, v \in {"Exercise", "Study"} : store(t, v)

CallGet == \E t \in CacheInputs : get(t)

NextCache == CallStore \/ CallGet \/ clear \/ cleanup_expired

SpecCache == InitCache /\ [][NextCache]_vars

(* the key of the store that has just been made *)
StoredKey == HashInput(call'.user_input)

-----------------------------------------------------------------------------
(* Weekly statistics and comparisons with a category filter *)

MaxFilterEntries == 3

FilterCategories == {None, "Exercise", "Sleep"}

InitFilter ==
    /\ entries = <<>>
    /\ today = Today0
    /\ call = [op |-> "init"]
    /\ result = [status |-> "none"]
    /\ locals = NoLocals
    /\ cache = NewCache(1000, 24)
    /\ clock = 0

AddFilter ==
    /\ Len(entries) < MaxFilterEntries
    /\ \E d \in {Jan06, Jan12}, k \in WeeklyKinds :
          add_entry(d, k[1], k[2], NoMetrics)

CallWeeklyFilter ==
    \E w \in {W01, W02}, c \in FilterCategories : weekly_statistics(w, c)

CallCompareFilter ==
    \E c \in FilterCategories : compare_periods(W01, W02, c)

NextFilter == AddFilter \/ CallWeeklyFilter \/ CallCompareFilter

SpecFilter == InitFilter /\ [][NextFilter]_vars

(* the stored events of a week that fall on a weekday, or have a mood *)
StoredOnDay(week_iso, day) ==
    Cardinality({i \in StoredInPeriod(week_iso) : DayName(entries[i].date) = day})

StoredWithMood(week_iso, mood) ==
    Cardinality({i \in StoredInPeriod(week_iso) : entries[i].mood = mood})

(* C26: with a category filter c and an event in the week,                 *)
(* weekly_statistics returns by_category = {c: n}, n the number of the     *)
(* week's events of category c, while total_entries, by_day and            *)
(* mood_distribution count every event of the week; the total_entries      *)
(* change and the improvement flags of compare_periods are those of the    *)
(* call without the filter.                                                *)
C26_CategoryFilterFrame ==
    /\ (IsWeeklyCall /\ call.category # None /\ StoredCount(call.week_iso) > 0) =>
          /\ result.by_category =
                [c \in {call.category} |->
                    StoredCategoryCount(call.week_iso, call.category)]
          /\ result.total_entries = StoredCount(call.week_iso)
          /\ \A i \in 1..Len(result.by_day) :
                result.by_day[i][2] = StoredOnDay(call.week_iso, result.by_day[i][1])
          /\ SumSeq([i \in 1..Len(result.by_day) |-> result.by_day[i][2]])
                = StoredCount(call.week_iso)
          /\ DOMAIN result.mood_distribution =
                {m \in Moods : StoredWithMood(call.week_iso, m) > 0}
          /\ \A m \in DOMAIN result.mood_distribution :
                result.mood_distribution[m] = StoredWithMood(call.week_iso, m)
    /\ (IsCompareCall /\ call.category # None) =>
          /\ result.change.total_entries
                = StoredCount(call.period2) - StoredCount(call.period1)
          /\ result.change.total_entries
                = ComparePeriodsOf(entries, today, call.period1, call.period2,
                                   None).change.total_entries
          /\ result.improvement
                = ComparePeriodsOf(entries, today, call.period1, call.period2,
                                   None).improvement

(* a week with an Exercise and a Study event, asked for Exercise *)
C26_Witness ==
    /\ IsWeeklyCall /\ call.category = "Exercise" /\ call.week_iso = W01
    /\ StoredCount(W01) = 2
    /\ result.by_category = [c \in {"Exercise"} |-> 1]
    /\ result.total_entries = 2
    /\ Len(result.by_day) = 1 /\ result.by_day[1] = <<"Tuesday", 2>>
    /\ DOMAIN result.mood_distribution = {"positive", "neutral"}

-----------------------------------------------------------------------------
AllCountsEqual ==
    \A o \in Range(day_order) : DowCount(o) = DowCount("Monday")

-----------------------------------------------------------------------------
-----------------------------------------------------------------------------
(* The current week on days around three turns of the year *)

MaxRoundTripEntries == 2

(* 2024 begins on a Monday and ends in week 53; 2026 begins on a Thursday  *)
(* and 2027 on a Friday                                                    *)
RoundTripDays ==
    (Ord(2024, 12, 28)..Ord(2025, 1, 7))
    \cup (Ord(2025, 12, 28)..Ord(2026, 1, 12))
    \cup (Ord(2026, 12, 31)..Ord(2027, 1, 4))

InitRoundTrip ==
    /\ entries = <<>>
    /\ today \in RoundTripDays
    /\ call = [op |-> "init"]
    /\ result = [status |-> "none"]
    /\ locals = NoLocals
    /\ cache = NewCache(1000, 24)
    /\ clock = 0

AddRoundTrip ==
    /\ Len(entries) < MaxRoundTripEntries
    /\ \E d \in {today - 7, today - 1, today} :
          add_entry(d, "Exercise", "positive", NoMetrics)

CallRoundTrip == weekly_statistics(None, None)

NextRoundTrip == AddRoundTrip \/ CallRoundTrip

SpecRoundTrip == InitRoundTrip /\ [][NextRoundTrip]_vars

DatedToday == {i \in 1..Len(entries) : entries[i].date = today}

(* C29: the week identifier weekly_statistics computes for the current     *)
(* date when week_iso is omitted is read back by get_entries_by_week as a  *)
(* Monday-Sunday span that holds the current date, whatever the date, the  *)
(* days of a year before its first Monday included; so every event dated   *)
(* today is among the entries of weekly_statistics().                      *)
C29_DefaultWeekRoundTrip ==
    (IsWeeklyCall /\ call.week_iso = None) =>
    /\ result.status = "ok"
    /\ result.week = StrftimeYearWeek(today)
    /\ LET monday == ResolvedMonday(result.week)
       IN  /\ Weekday(monday) = 0
           /\ monday <= today /\ today <= monday + 6
           /\ result.total_entries = StoredInSpan(monday, monday + 6)
    /\ result.total_entries >= Cardinality(DatedToday)
    /\ \A i \in DatedToday :
          \E k \in 1..Len(result.entries) : result.entries[k] = entries[i]

(* New Year's Day of 2026, a Thursday in week 00, whose Monday lies in     *)
(* 2025                                                                    *)
C29_Witness ==
    /\ IsWeeklyCall /\ call.week_iso = None
    /\ today = Ord(2026, 1, 1)
    /\ result.week = W00
    /\ ResolvedMonday(result.week) = Ord(2025, 12, 29)
    /\ Cardinality(DatedToday) = 1
    /\ result.total_entries = 2

-----------------------------------------------------------------------------
(* get_insights and compare_periods read by read, with another caller's    *)
(* add_entry between the reads. Every read opens its own connection        *)
(* (_get_connection) and sees the rows committed so far; locals holds the  *)
(* results the call in flight has computed.                                *)

MaxInterleaveEntries == 2

(* add_entry of another caller: its INSERT commits, the call in flight     *)
(* keeps its locals                                                        *)
add_entry_by_other(d, c, m) ==
    /\ Len(entries) < MaxInterleaveEntries
    /\ entries' = Append(entries, Entry(Len(entries) + 1, d, c, m, NoMetrics))
    /\ UNCHANGED <<today, call, result, locals, cache, clock>>

(* line 450: day_patterns = self.detect_day_of_week_patterns(weeks=weeks) *)
get_insights_day_patterns(weeks) ==
    /\ locals = NoLocals
    /\ locals' = [pc |-> "streaks", weeks |-> weeks,
                  day_patterns |->
                      DetectDayOfWeekPatternsOf(entries, today, weeks, None)]
    /\ UNCHANGED <<entries, today, call, result, cache, clock>>

(* line 451: streaks = self.detect_streaks(days=weeks*7) *)
get_insights_streaks ==
    /\ locals # NoLocals /\ locals.pc = "streaks"
    /\ locals' = [pc |-> "correlations", weeks |-> locals.weeks,
                  day_patterns |-> locals.day_patterns,
                  streaks |->
                      DetectStreaksOf(entries, today, None, locals.weeks * 7)]
    /\ UNCHANGED <<entries, today, call, result, cache, clock>>

(* lines 452-509: correlations = self.detect_correlations(weeks=weeks),    *)
(* the summary, the recommendations and the return                         *)
get_insights_correlations ==
    /\ locals # NoLocals /\ locals.pc = "correlations"
    /\ \E correlations \in DetectCorrelationsChoices(entries, today, locals.weeks) :
          result' = [status |-> "ok",
                     summary |-> InsightsSummary(locals.day_patterns, locals.streaks),
                     day_patterns |-> locals.day_patterns,
                     streaks |-> locals.streaks,
                     correlations |-> correlations,
                     recommendations |->
                         InsightsRecommendations(locals.day_patterns,
                                                 locals.streaks, correlations)]
    /\ call' = [op |-> "get_insights", weeks |-> locals.weeks]
    /\ locals' = NoLocals
    /\ UNCHANGED <<entries, today, cache, clock>>

(* line 331: stats1 = self.weekly_statistics(week_iso=period1, ...) *)
compare_periods_stats1(period1, period2, category) ==
    /\ locals = NoLocals
    /\ locals' = [pc |-> "stats2", period1 |-> period1, period2 |-> period2,
                  category |-> category,
                  stats1 |-> WeeklyStatisticsOf(entries, today, period1, category)]
    /\ UNCHANGED <<entries, today, call, result, cache, clock>>

(* lines 332-414: stats2 = self.weekly_statistics(week_iso=period2, ...),  *)
(* the changes and the return                                              *)
compare_periods_stats2 ==
    /\ locals # NoLocals /\ locals.pc = "stats2"
    /\ LET stats1 == locals.stats1
           stats2 == WeeklyStatisticsOf(entries, today, locals.period2,
                                        locals.category)
           change == ChangeOf(stats1, stats2)
       IN  result' = [status |-> "ok",
                      period1 |-> locals.period1,
                      period2 |-> locals.period2,
                      period1_stats |-> stats1,
                      period2_stats |-> stats2,
                      change |-> change,
                      improvement |->
                          [total_entries |-> change.total_entries >= 0,
                           positive_mood |->
                               change.mood_distribution["positive"].absolute >= 0]]
    /\ call' = [op |-> "compare_periods", period1 |-> locals.period1,
                period2 |-> locals.period2, category |-> locals.category]
    /\ locals' = NoLocals
    /\ UNCHANGED <<entries, today, cache, clock>>

InitInterleave ==
    /\ entries = <<>>
    /\ today = Today0
    /\ call = [op |-> "init"]
    /\ result = [status |-> "none"]
    /\ locals = NoLocals
    /\ cache = NewCache(1000, 24)
    /\ clock = 0

AddByOther ==
    \E d \in {Jan06, Today0 - 1, Today0},
       k \in {<<"Exercise", "positive">>, <<"Study", "negative">>} :
        add_entry_by_other(d, k[1], k[2])

InsightsStart == get_insights_day_patterns(1)

CompareStart == compare_periods_stats1(W01, W02, None)

NextInterleave ==
    \/ AddByOther
    \/ InsightsStart \/ get_insights_streaks \/ get_insights_correlations
    \/ CompareStart \/ compare_periods_stats2

SpecInterleave == InitInterleave /\ [][NextInterleave]_vars

(* the tables the calls may have read: rows are only ever appended *)
Snapshots == {SubSeq(entries, 1, n) : n \in 0..Len(entries)}

(* C30 (as claimed): the day_patterns, streaks and correlations of one     *)
(* get_insights result, and the two period statistics of one               *)
(* compare_periods result, are computed from one set of stored events,     *)
(* also when an add_entry of another caller commits between the reads of   *)
(* the call.                                                               *)
C30_SnapshotConsistency ==
    /\ (call.op = "get_insights" /\ result.status = "ok") =>
          \E snap \in Snapshots :
              /\ result.day_patterns
                    = DetectDayOfWeekPatternsOf(snap, today, call.weeks, None)
              /\ result.streaks
                    = DetectStreaksOf(snap, today, None, call.weeks * 7)
              /\ result.correlations
                    \in DetectCorrelationsChoices(snap, today, call.weeks)
    /\ (call.op = "compare_periods" /\ result.status = "ok") =>
          \E snap \in Snapshots :
              /\ result.period1_stats
                    = WeeklyStatisticsOf(snap, today, call.period1, call.category)
              /\ result.period2_stats
                    = WeeklyStatisticsOf(snap, today, call.period2, call.category)

=============================================================================
